---- MODULE Spec2Model ----
(***************************************************************************)
(* Model of the block-reference resolution engine of xmlto2d               *)
(* (src/drawing_engine.py, class DrawingEngine), of the conversion of a    *)
(* whole document to drawing commands, and of the document parser          *)
(* (src/xml_parser.py, class SPSDocumentParser).                           *)
(*                                                                         *)
(* Specifications.  Spec: one call of _convert_block_reference.  SpecDoc:  *)
(* one call of convert_to_drawing_commands or create_floor_plan.           *)
(* SpecCalls: calls one after the other on one engine, the caller keeping  *)
(* a returned list.  SpecConcurrent: two calls at once, statement by       *)
(* statement.  SpecParser: parsing a tree and writing it as standard XML.  *)
(* SpecCoordinates: one call of parse_coordinates on a string.             *)
(*                                                                         *)
(* Numbers.  The program computes with Python floats.  The model computes  *)
(* with exact fixed-point numbers: a length or coordinate v is the integer *)
(* v * Unit.  Unit is chosen so that every constant of the program         *)
(* (55.6668, 946.667, 958.667, 0.5, the override anchors) and every        *)
(* product with the cosines and sines used below is an integer.  A scale   *)
(* factor is a plain integer.  Rounding of floats is not modelled.         *)
(*                                                                         *)
(* Angles.  An angle is a record [b, q] standing for b*theta + q*(pi/2)    *)
(* radians, theta = atan(4/3), so that cos and sin are the exact rationals *)
(* 0, +-3/5, +-4/5, +-1.  q is not reduced modulo 4: the program never     *)
(* normalises an angle.                                                    *)
(*                                                                         *)
(* Rounding.  One place of the program lets float rounding decide the      *)
(* control flow: the comparison dist > best[0] of the swing disambiguation *)
(* compares four computed squared distances that are equal or nearly equal *)
(* in exact arithmetic.  There the computed value is the exact value plus  *)
(* a rounding error, one per candidate, chosen nondeterministically (the   *)
(* variable rounding records the errors of the call).                      *)
(***************************************************************************)
EXTENDS Integers, Sequences, FiniteSets, TLC

VARIABLES pc, block, rounding, commands, engine, call, document,
          lists, returned_list, created, previous, frames, visibilities, root, standard_xml,
          coord_arg, coordinates

vars == <<pc, block, rounding, commands, engine, call, document,
          lists, returned_list, created, previous, frames, visibilities, root, standard_xml,
                   coord_arg, coordinates>>

-----------------------------------------------------------------------------
(* Fixed-point arithmetic *)

Unit == 5 * 10000

\* v hundredths of a drawing unit, e.g. Hundredths(760307) is 7603.07
Hundredths(v) == v * (Unit \div 100)

\* n drawing units
Units(n) == n * Unit

\* v ten-thousandths of a drawing unit, e.g. TenThousandths(556668) is 55.6668
TenThousandths(v) == v * (Unit \div 10000)

Half(v) == v \div 2

Abs(v) == IF v < 0 THEN -v ELSE v

Angle(b, q) == [b |-> b, q |-> q]

\* angle + k * (pi/2)
AddQuarter(a, k) == [a EXCEPT !.q = @ + k]

BaseCos5(a) == IF a.b = 0 THEN 5 ELSE 3

BaseSin5(a) == IF a.b = 0 THEN 0 ELSE 4

\* 5 * math.cos(a)
Cos5(a) ==
    CASE a.q % 4 = 0 -> BaseCos5(a)
      [] a.q % 4 = 1 -> -BaseSin5(a)
      [] a.q % 4 = 2 -> -BaseCos5(a)
      [] a.q % 4 = 3 -> BaseSin5(a)

\* 5 * math.sin(a)
Sin5(a) ==
    CASE a.q % 4 = 0 -> BaseSin5(a)
      [] a.q % 4 = 1 -> BaseCos5(a)
      [] a.q % 4 = 2 -> -BaseSin5(a)
      [] a.q % 4 = 3 -> -BaseCos5(a)

\* v * math.cos(a) and v * math.sin(a)
MulCos(v, a) == (v * Cos5(a)) \div 5

MulSin(v, a) == (v * Sin5(a)) \div 5

\* Squares exceed the checker's integers: a square and a sum of squares is
\* kept exactly as hi * Limb^2 + lo with 0 <= lo < Limb^2.
Limb == 10 * 1000

Norm(hi, lo) == [hi |-> hi + lo \div (Limb * Limb), lo |-> lo % (Limb * Limb)]

\* v ** 2
Square(v) ==
    LET n == Abs(v)
        a == n \div Limb
        c == n % Limb
        m == 2 * a * c
    IN  Norm(a * a + m \div Limb, (m % Limb) * Limb + c * c)

BigAdd(d, e) == Norm(d.hi + e.hi, d.lo + e.lo)

BigGt(d, e) == d.hi > e.hi \/ (d.hi = e.hi /\ d.lo > e.lo)

-----------------------------------------------------------------------------
(* Drawing commands (classes LineCommand, ArcCommand, SymbolCommand) *)

LineCommand(x1, y1, x2, y2, layer, color) ==
    [kind |-> "Line", x1 |-> x1, y1 |-> y1, x2 |-> x2, y2 |-> y2,
     layer |-> layer, color |-> color, visible |-> TRUE]

ArcCommand(x, y, radius, start_angle, end_angle, layer, color) ==
    [kind |-> "Arc", x |-> x, y |-> y, radius |-> radius,
     start_angle |-> start_angle, end_angle |-> end_angle,
     layer |-> layer, color |-> color, visible |-> TRUE]

SymbolCommand(x, y, symbol_type, angle, scale, layer, color) ==
    [kind |-> "Symbol", x |-> x, y |-> y, symbol_type |-> symbol_type,
     angle |-> angle, scale |-> scale,
     layer |-> layer, color |-> color, visible |-> TRUE]

-----------------------------------------------------------------------------
(* DrawingEngine.__init__ : the configuration *)

color_map ==
    [k \in {"CPWALL", "WALL", "0", "1", "2", "3", "4", "5", "6", "7", "8",
            "9", "10", "11", "12"} |-> "blue"]
    @@ [k \in {"CPDOOR", "DOOR"} |-> "orange"]
    @@ [k \in {"CPWIN", "CPWINDOW", "WINDOW"} |-> "cyan"]
    @@ [k \in {"CPTEXT", "default"} |-> "black"]
    @@ [k \in {"FIN"} |-> "gray"]
    @@ [k \in {"STAIR"} |-> "darkgreen"]

\* CPDOOR2 bound to the door resolver as well
DoorSymbolsAndStair == {"CPDOOR1", "CPDOOR5", "DOOR", "CPDOOR2"}

\* the keys of self.symbols, by the resolver each is bound to
DoorSymbols == {"CPDOOR1", "CPDOOR5", "DOOR"}

WindowSymbols == {"CPWIN1", "CPWINDOW1", "CPWINDOW8"}

symbols == DoorSymbols \cup WindowSymbols

get_color(color_code, layer_name) ==
    IF layer_name \in DOMAIN color_map THEN color_map[layer_name]
    ELSE IF color_code \in DOMAIN color_map THEN color_map[color_code]
    ELSE color_map["default"]

-----------------------------------------------------------------------------
(* DrawingEngine._create_door_symbol *)

\* Python's None and a present value
None == <<>>

Some(v) == <<v>>

\* CPDOOR1 and CPDOOR5 hinged off the axis
door_block_defs_off_axis ==
    [n \in {"A$C139426D3"} |->
        [hinge_offset |-> <<TenThousandths(556668), TenThousandths(9466670)>>,
         radius |-> Some(TenThousandths(9586670))]]
    @@ [n \in {"CPDOOR5", "CPDOOR1"} |->
        [hinge_offset |-> <<-Half(Unit), Half(Unit)>>, radius |-> None]]

door_block_defs ==
    [n \in {"A$C139426D3"} |->
        [hinge_offset |-> <<TenThousandths(556668), TenThousandths(9466670)>>,
         radius |-> Some(TenThousandths(9586670))]]
    @@ [n \in {"CPDOOR5", "CPDOOR1"} |->
        [hinge_offset |-> <<-Half(Unit), 0>>, radius |-> None]]

DefaultDoorWidth == 900

OverrideTolerance == 20

TopThreshold == 19000

\* scale_x, scale_y = block.scale if block.scale != (0, 0) else (1, 1)
EffectiveScale(b) == IF b.scale # <<0, 0>> THEN b.scale ELSE <<1, 1>>

\* scale_x if scale_x not in (0, 1) else 900
ScaleRadius(scale_x) ==
    IF scale_x \notin {0, 1} THEN Units(scale_x) ELSE Units(DefaultDoorWidth)

\* abs(block.position[0] - ax) < 20 and abs(block.position[1] - ay) < 20,
\* the anchor given in hundredths
NearAnchor(b, ax, ay) ==
    /\ Abs(b.position[1] - Hundredths(ax)) < Units(OverrideTolerance)
    /\ Abs(b.position[2] - Hundredths(ay)) < Units(OverrideTolerance)

\* the panel drawn to the end of the arc instead of its start
ArcAndPanelToEnd(b, cx, cy, door_radius, rot_angle, color) ==
    LET x2 == cx + MulCos(door_radius, AddQuarter(rot_angle, 1))
        y2 == cy + MulSin(door_radius, AddQuarter(rot_angle, 1))
    IN  << ArcCommand(cx, cy, door_radius, rot_angle, AddQuarter(rot_angle, 1),
                      b.layer, color),
           LineCommand(cx, cy, x2, y2, b.layer, color) >>

\* arc = ArcCommand(cx, cy, r, rot, rot + pi/2, ...); x2, y2; panel; [arc, panel]
ArcAndPanel(b, cx, cy, door_radius, rot_angle, color) ==
    LET x2 == cx + MulCos(door_radius, rot_angle)
        y2 == cy + MulSin(door_radius, rot_angle)
    IN  << ArcCommand(cx, cy, door_radius, rot_angle, AddQuarter(rot_angle, 1),
                      b.layer, color),
           LineCommand(cx, cy, x2, y2, b.layer, color) >>

\* position + Rotate(a) . (dx, dy)
RotatedX(b, dx, dy, a) == b.position[1] + MulCos(dx, a) - MulSin(dy, a)

RotatedY(b, dx, dy, a) == b.position[2] + MulSin(dx, a) + MulCos(dy, a)

\* the branch at (7603.07, 15067.4)
TopLeftDoor(b, hinge_offset, color) ==
    LET sc == EffectiveScale(b)
        door_radius == ScaleRadius(sc[1])
        special_angle == AddQuarter(b.angle, 2)
        dx == -Abs(hinge_offset[1]) * sc[1]
        dy == -Abs(hinge_offset[2]) * sc[2]
        cx == RotatedX(b, dx, dy, special_angle)
        cy == RotatedY(b, dx, dy, special_angle)
        rot_angle == AddQuarter(special_angle, -1)
    IN  ArcAndPanel(b, cx, cy, door_radius, rot_angle, color)

\* the five other coordinate branches (quarter = -1) and the y > 19000
\* branch (quarter = +1): the hinge forced to (-|hx|, +|hy|)
ForcedDoor(b, hinge_offset, sc, door_radius, quarter, color) ==
    LET forced_hinge_offset == <<-Abs(hinge_offset[1]), Abs(hinge_offset[2])>>
        dx == forced_hinge_offset[1] * sc[1]
        dy == forced_hinge_offset[2] * sc[2]
        forced_cx == RotatedX(b, dx, dy, b.angle)
        forced_cy == RotatedY(b, dx, dy, b.angle)
        forced_rot_angle == AddQuarter(b.angle, quarter)
    IN  ArcAndPanel(b, forced_cx, forced_cy, door_radius, forced_rot_angle, color)

\* for hinge_sign in [1, -1]: ... for offset in [pi/2, -pi/2]: the candidate
\* (dist, test_cx, test_cy, rot_angle)
Candidate(b, hinge_offset, sc, door_radius, hinge_sign, quarter, err) ==
    LET test_hinge_offset == <<hinge_sign * Abs(hinge_offset[1]),
                               hinge_sign * Abs(hinge_offset[2])>>
        dx == test_hinge_offset[1] * sc[1]
        dy == test_hinge_offset[2] * sc[2]
        test_cx == RotatedX(b, dx, dy, b.angle)
        test_cy == RotatedY(b, dx, dy, b.angle)
        rot_angle == AddQuarter(b.angle, quarter)
        x2 == test_cx + MulCos(door_radius, rot_angle)
        y2 == test_cy + MulSin(door_radius, rot_angle)
        dist == BigAdd(BigAdd(Square(x2 - b.position[1]),
                              Square(y2 - b.position[2])), [hi |-> 0, lo |-> err])
    IN  [dist |-> dist, cx |-> test_cx, cy |-> test_cy, rot |-> rot_angle]

\* the candidates in the order the two nested loops visit them
Candidates(b, hinge_offset, sc, door_radius, r) ==
    << Candidate(b, hinge_offset, sc, door_radius, 1, 1, r[1]),
       Candidate(b, hinge_offset, sc, door_radius, 1, -1, r[2]),
       Candidate(b, hinge_offset, sc, door_radius, -1, 1, r[3]),
       Candidate(b, hinge_offset, sc, door_radius, -1, -1, r[4]) >>

\* the comparison made non-strict
ImprovesOrTies(best, dist) == best = None \/ ~BigGt(best[1].dist, dist)

\* if best is None or dist > best[0]
Improves(best, dist) == best = None \/ BigGt(dist, best[1].dist)

RECURSIVE BestCandidate(_, _, _)
BestCandidate(cands, i, best) ==
    IF i > Len(cands) THEN best[1]
    ELSE BestCandidate(cands, i + 1,
                       IF Improves(best, cands[i].dist) THEN Some(cands[i])
                       ELSE best)

HeuristicDoor(b, hinge_offset, sc, door_radius, color, r) ==
    LET best == BestCandidate(Candidates(b, hinge_offset, sc, door_radius, r), 1, None)
    IN  ArcAndPanel(b, best.cx, best.cy, door_radius, best.rot, color)

\* the "old method" after the if
FallbackDoor(b) ==
    LET door_width == IF b.scale[1] = 0 THEN Units(DefaultDoorWidth)
                      ELSE Units(b.scale[1])
        x == b.position[1]
        y == b.position[2]
        color == get_color(b.color, b.layer)
        x2 == x + MulCos(door_width, b.angle)
        y2 == y + MulSin(door_width, b.angle)
    IN  << ArcCommand(x, y, door_width, b.angle, AddQuarter(b.angle, 1),
                      b.layer, color),
           LineCommand(x, y, x2, y2, b.layer, color) >>

\* the block is a known door block and no override branch takes it
ReachesHeuristic(b) ==
    /\ b.name \in DOMAIN door_block_defs
    /\ ~NearAnchor(b, 760307, 1506740)
    /\ ~NearAnchor(b, 2026690, 1041400)
    /\ ~NearAnchor(b, 1804190, 1042470)
    /\ ~NearAnchor(b, 2118850, 1202080)
    /\ ~NearAnchor(b, 419579, 2373280)
    /\ ~NearAnchor(b, 1476520, 820818)
    /\ ~(b.position[2] > Units(TopThreshold))

\* the y > 19000 branch consulted before the coordinate branches
create_door_symbol_threshold_first(b, r) ==
    IF b.name \in DOMAIN door_block_defs
    THEN LET defn == door_block_defs[b.name]
             hinge_offset == defn.hinge_offset
             sc == EffectiveScale(b)
             door_radius == IF defn.radius # None THEN defn.radius[1] * sc[1]
                            ELSE ScaleRadius(sc[1])
             color == get_color(b.color, b.layer)
         IN  IF b.position[2] > Units(TopThreshold)
             THEN ForcedDoor(b, hinge_offset, sc, door_radius, 1, color)
             ELSE IF NearAnchor(b, 760307, 1506740)
             THEN TopLeftDoor(b, hinge_offset, color)
             ELSE IF \/ NearAnchor(b, 2026690, 1041400)
                     \/ NearAnchor(b, 1804190, 1042470)
                     \/ NearAnchor(b, 2118850, 1202080)
                     \/ NearAnchor(b, 419579, 2373280)
                     \/ NearAnchor(b, 1476520, 820818)
             THEN ForcedDoor(b, hinge_offset, sc, door_radius, -1, color)
             ELSE HeuristicDoor(b, hinge_offset, sc, door_radius, color, r)
    ELSE FallbackDoor(b)

create_door_symbol(b, r) ==
    IF b.name \in DOMAIN door_block_defs
    THEN LET defn == door_block_defs[b.name]
             hinge_offset == defn.hinge_offset
             sc == EffectiveScale(b)
             door_radius == IF defn.radius # None THEN defn.radius[1] * sc[1]
                            ELSE ScaleRadius(sc[1])
             color == get_color(b.color, b.layer)
         IN  IF NearAnchor(b, 760307, 1506740)
             THEN TopLeftDoor(b, hinge_offset, color)
             ELSE IF NearAnchor(b, 2026690, 1041400)
             THEN ForcedDoor(b, hinge_offset, sc, door_radius, -1, color)
             ELSE IF NearAnchor(b, 1804190, 1042470)
             THEN ForcedDoor(b, hinge_offset, sc, door_radius, -1, color)
             ELSE IF NearAnchor(b, 2118850, 1202080)
             THEN ForcedDoor(b, hinge_offset, sc, door_radius, -1, color)
             ELSE IF NearAnchor(b, 419579, 2373280)
             THEN ForcedDoor(b, hinge_offset, sc, door_radius, -1, color)
             ELSE IF NearAnchor(b, 1476520, 820818)
             THEN ForcedDoor(b, hinge_offset, sc, door_radius, -1, color)
             ELSE IF b.position[2] > Units(TopThreshold)
             THEN ForcedDoor(b, hinge_offset, sc, door_radius, 1, color)
             ELSE HeuristicDoor(b, hinge_offset, sc, door_radius, color, r)
    ELSE FallbackDoor(b)

-----------------------------------------------------------------------------
(* DrawingEngine._create_window_symbol *)

DefaultWindowWidth == 1200

wall_thickness == 200

\* the rotation with the sign of the sine terms exchanged
WindowPointMirrored(b, corner) ==
    << b.position[1] + MulCos(corner[1], b.angle) + MulSin(corner[2], b.angle),
       b.position[2] - MulSin(corner[1], b.angle) + MulCos(corner[2], b.angle) >>

\* rot = lambda px, py: (x + px*cos - py*sin, y + px*sin + py*cos)
WindowPoint(b, corner) ==
    << RotatedX(b, corner[1], corner[2], b.angle),
       RotatedY(b, corner[1], corner[2], b.angle) >>

\* the default taken only when the whole scale is (0, 0)
WindowWidthUnlessBothZero(b) ==
    IF b.scale = <<0, 0>> THEN Units(DefaultWindowWidth) ELSE Units(Abs(b.scale[1]))

\* window_width = 1200 if block.scale[0] == 0 else abs(block.scale[0])
WindowWidth(b) ==
    IF b.scale[1] = 0 THEN Units(DefaultWindowWidth) ELSE Units(Abs(b.scale[1]))

create_window_symbol(b) ==
    LET window_width == WindowWidth(b)
        x == b.position[1]
        y == b.position[2]
        color == "green"
        corners == << <<-Half(window_width), -Half(Units(wall_thickness))>>,
                      <<Half(window_width), -Half(Units(wall_thickness))>>,
                      <<Half(window_width), Half(Units(wall_thickness))>>,
                      <<-Half(window_width), Half(Units(wall_thickness))>> >>
        pts == [i \in 1..4 |-> WindowPoint(b, corners[i])]
        \* pts[i], pts[(i+1)%4] for i in range(4), indices shifted to 1..4
        rect_lines == [i \in 1..4 |->
                          LineCommand(pts[i][1], pts[i][2],
                                      pts[(i % 4) + 1][1], pts[(i % 4) + 1][2],
                                      b.layer, color)]
        symbol_cmd == SymbolCommand(x, y, "WINDOW", b.angle, b.scale, b.layer, color)
    IN  <<symbol_cmd>> \o rect_lines

-----------------------------------------------------------------------------
(* DrawingEngine._create_stair_symbol *)

\* the radius taken from scale_y
StairRadiusFromY(sc) == Half(Units(sc[2]))

\* radius = 0.5 * scale_x
StairRadius(sc) == Half(Units(sc[1]))

create_stair_symbol(b) ==
    LET x == b.position[1]
        y == b.position[2]
        sc == EffectiveScale(b)
        scale_x == sc[1]
        scale_y == sc[2]
        angle == b.angle
        color == get_color(b.color, b.layer)
        half_x == Half(Units(scale_x))
        line1_start == <<x + MulCos(half_x, angle), y + MulSin(half_x, angle)>>
        line1_end == <<x + MulCos(half_x, angle),
                       y + MulSin(half_x, angle) + Half(Units(scale_y))>>
        line2_start == <<x - MulCos(half_x, angle), y - MulSin(half_x, angle)>>
        line2_end == <<x - MulCos(half_x, angle),
                       y - MulSin(half_x, angle) + Half(Units(scale_y))>>
        arc1_center == <<x + MulCos(half_x, angle), y + MulSin(half_x, angle)>>
        arc2_center == <<x - MulCos(half_x, angle), y + MulSin(half_x, angle)>>
        radius == StairRadius(sc)
    IN  << LineCommand(line1_start[1], line1_start[2], line1_end[1], line1_end[2],
                       b.layer, color),
           LineCommand(line2_start[1], line2_start[2], line2_end[1], line2_end[2],
                       b.layer, color),
           ArcCommand(arc1_center[1], arc1_center[2], radius,
                      AddQuarter(angle, 1), AddQuarter(angle, 2), b.layer, color),
           ArcCommand(arc2_center[1], arc2_center[2], radius,
                      angle, AddQuarter(angle, 1), b.layer, color) >>

-----------------------------------------------------------------------------
(* DrawingEngine._create_default_symbol and _convert_block_reference *)

create_default_symbol(b) ==
    SymbolCommand(b.position[1], b.position[2], b.name, b.angle, b.scale,
                  b.layer, get_color(b.color, b.layer))

\* self.symbols[block.name](block)
SymbolResolver(b, r) ==
    IF b.name \in DoorSymbols THEN create_door_symbol(b, r)
    ELSE create_window_symbol(b)

\* the lookup ignoring the case of the name
convert_block_reference_nocase(b, r) ==
    LET upper == IF b.name = "cpdoor1" THEN "CPDOOR1" ELSE b.name
        u == [b EXCEPT !.name = upper]
    IN  IF upper \in symbols THEN SymbolResolver(u, r)
        ELSE IF upper = "CPDOOR2" THEN create_stair_symbol(u)
        ELSE IF upper = "계단-6" THEN create_stair_symbol(u)
        ELSE <<create_default_symbol(u)>>

convert_block_reference(b, r) ==
    IF b.name \in symbols THEN SymbolResolver(b, r)
    ELSE IF b.name = "CPDOOR2" THEN create_stair_symbol(b)
    ELSE IF b.name = "계단-6" THEN create_stair_symbol(b)
    ELSE <<create_default_symbol(b)>>

-----------------------------------------------------------------------------
(* The block references the engine is called with *)

MaxScale == 2

MaxQuarter == 2

BlockNames ==
    {"CPDOOR1", "CPDOOR5", "DOOR", "CPWIN1", "CPWINDOW1", "CPWINDOW8",
     "CPDOOR2", "계단-6", "A$C139426D3", "UNKNOWN_X", "cpdoor1", "CPDOOR10"}

\* positions in hundredths: the test's (500, 0), the six anchors, points inside
\* and on the edge of their tolerance squares, and points around y = 19000
PositionsH ==
    { <<50000, 0>>,
      <<760307, 1506740>>, <<762306, 1504741>>, <<762307, 1506740>>,
      <<2026690, 1041400>>, <<2026690, 1043400>>,
      <<1804190, 1042470>>, <<1802191, 1044469>>,
      <<2118850, 1202080>>, <<2116850, 1202080>>,
      <<419579, 2373280>>, <<421579, 2373280>>,
      <<1476520, 820818>>, <<1476520, 818818>>,
      <<50000, 1900000>>, <<50000, 1900001>> }

Positions == { <<Hundredths(p[1]), Hundredths(p[2])>> : p \in PositionsH }

Angles == { Angle(b, q) : b \in 0..1, q \in 0..MaxQuarter }

Scales == (-1..MaxScale) \X (-1..MaxScale)

\* (layer, color) pairs: layer in color_map; only the color code in it; neither
LayerColors == { <<"CPDOOR", "7">>, <<"A-DOOR", "3">>, <<"A-DOOR", "red">> }

BlockReference(name, position, angle, scale, layer, color) ==
    [name |-> name, position |-> position, angle |-> angle, scale |-> scale,
     element_type |-> "BlockReference", layer |-> layer, color |-> color]

BlockReferences ==
    { BlockReference(n, p, a, s, lc[1], lc[2]) :
        n \in BlockNames, p \in Positions, a \in Angles, s \in Scales,
        lc \in LayerColors }

NoBlock == BlockReference("", <<0, 0>>, Angle(0, 0), <<1, 1>>, "", "")

\* rounding errors of the four computed distances, in units of the last place
NoRounding == <<0, 0, 0, 0>>

\* exact arithmetic, each candidate alone rounded up, and two ties that
\* leave out the first candidate
Roundings ==
    { NoRounding, <<1, 0, 0, 0>>, <<0, 1, 0, 0>>, <<0, 0, 1, 0>>, <<0, 0, 0, 1>>,
      <<0, 1, 1, 0>>, <<0, 0, 1, 1>> }

\* the roundings a call on b can meet: none where no distance is compared
RoundingsOf(b) ==
    IF b.name \in symbols /\ b.name \in DoorSymbols /\ ReachesHeuristic(b)
    THEN Roundings ELSE {NoRounding}

-----------------------------------------------------------------------------
(* The document: dataclasses of src/xml_parser.py *)

Layer(name, color, off) == [name |-> name, color |-> color, off |-> off]

Line(start_point, end_point, layer, color) ==
    [element_type |-> "Line", start_point |-> start_point,
     end_point |-> end_point, layer |-> layer, color |-> color]

Text(text, position, font, height, angle, layer, color) ==
    [element_type |-> "Text", text |-> text, position |-> position,
     font |-> font, height |-> height, angle |-> angle,
     layer |-> layer, color |-> color]

CircleElement(center, radius, layer, color) ==
    [element_type |-> "Circle", center |-> center, radius |-> radius,
     layer |-> layer, color |-> color]

ArcElement(center, radius, start_angle, end_angle, layer, color) ==
    [element_type |-> "Arc", center |-> center, radius |-> radius,
     start_angle |-> start_angle, end_angle |-> end_angle,
     layer |-> layer, color |-> color]

\* a block reference as an element of a page.  The rounding errors that its
\* resolution meets are a function of its numbers, so they travel with it.
BlockElement(b, r) ==
    [element_type |-> "BlockReference", block |-> b, rounding |-> r,
     layer |-> b.layer, color |-> b.color]

Page(title, scale, note, layers, drawing_elements) ==
    [title |-> title, scale |-> scale, note |-> note, layers |-> layers,
     drawing_elements |-> drawing_elements]

SPSDocument(version, pages) == [version |-> version, pages |-> pages]

-----------------------------------------------------------------------------
(* DrawingEngine.convert_to_drawing_commands *)

TextCommand(x, y, text, font, height, angle, layer, color) ==
    [kind |-> "Text", x |-> x, y |-> y, text |-> text, font |-> font,
     height |-> height, angle |-> angle,
     layer |-> layer, color |-> color, visible |-> TRUE]

CircleCommand(x, y, radius, layer, color) ==
    [kind |-> "Circle", x |-> x, y |-> y, radius |-> radius,
     layer |-> layer, color |-> color, visible |-> TRUE]

default_visible_layers ==
    <<"CPWALL", "CPDOOR", "CPWIN", "CPWINDOW", "WALL", "DOOR", "WINDOW",
      "CPTEXT", "FIN", "STAIR",
      "0", "1", "2", "3", "4", "5", "6", "7", "8", "9", "10", "11", "12">>

\* the engine after __init__
DrawingEngine ==
    [color_map |-> color_map, symbols |-> symbols,
     default_visible_layers |-> default_visible_layers]

\* str.isdigit() and the strings int() accepts, on the color codes of the
\* model: a superscript digit is a digit to isdigit() and no literal to int()
IsDigit(color_code) == color_code \in {"7", "3", "²"}

IntLiteral(color_code) == color_code \in {"7", "3"}

\* _get_color raises where int() is reached on a string it rejects
get_color_raises(color_code, layer_name) ==
    /\ layer_name \notin DOMAIN color_map
    /\ color_code \notin DOMAIN color_map
    /\ IsDigit(color_code)
    /\ ~IntLiteral(color_code)

convert_line(line) ==
    LineCommand(line.start_point[1], line.start_point[2],
                line.end_point[1], line.end_point[2],
                line.layer, get_color(line.color, line.layer))

convert_text(text) ==
    TextCommand(text.position[1], text.position[2], text.text, text.font,
                text.height, text.angle,
                text.layer, get_color(text.color, text.layer))

convert_circle(circle) ==
    CircleCommand(circle.center[1], circle.center[2], circle.radius,
                  circle.layer, get_color(circle.color, circle.layer))

convert_arc(arc) ==
    ArcCommand(arc.center[1], arc.center[2], arc.radius,
               arc.start_angle, arc.end_angle,
               arc.layer, get_color(arc.color, arc.layer))

\* the commands one element that passed the filter adds to the list (the
\* parser makes Lines of a Polyline, so no element has the type "Polyline")
ElementCommands(element) ==
    IF element.element_type = "Line" THEN <<convert_line(element)>>
    ELSE IF element.element_type = "Text" THEN <<convert_text(element)>>
    ELSE IF element.element_type = "Circle" THEN <<convert_circle(element)>>
    ELSE IF element.element_type = "Arc" THEN <<convert_arc(element)>>
    ELSE convert_block_reference(element.block, element.rounding)

\* the element's conversion raises: every converter but the window's calls
\* _get_color
ElementRaises(element) ==
    /\ get_color_raises(element.color, element.layer)
    /\ \/ element.element_type # "BlockReference"
       \/ element.block.name \notin WindowSymbols

\* an optional argument is None or Some(list); "x or y" takes y for None and
\* for the empty list
\* an empty list taken for a list
TruthyUnlessNone(arg) == arg # None

Truthy(arg) == arg # None /\ arg[1] # <<>>

Members(list) == { list[i] : i \in 1..Len(list) }

\* wall_layers = wall_layers or self.default_visible_layers
\* (visible_layers is not read)
EffectiveWallLayers(engine_, visible_layers, wall_layers) ==
    IF Truthy(wall_layers) THEN wall_layers[1]
    ELSE engine_.default_visible_layers

\* {layer.name: not layer.off for layer in page.layers}: a later layer of the
\* same name replaces the earlier one
Declared(layers) == { layers[i].name : i \in 1..Len(layers) }

LastDeclaration(layers, name) ==
    layers[CHOOSE i \in 1..Len(layers) :
              /\ layers[i].name = name
              /\ \A j \in (i + 1)..Len(layers) : layers[j].name # name]

FirstDeclaration(layers, name) ==
    layers[CHOOSE i \in 1..Len(layers) :
              /\ layers[i].name = name
              /\ \A j \in 1..(i - 1) : layers[j].name # name]

DeclaredVisibleFirst(layers, name) == ~FirstDeclaration(layers, name).off

DeclaredVisible(layers, name) == ~LastDeclaration(layers, name).off

\* the dictionary after the loop that hides what is not in wall_layers
layer_visibility(page, wall_layers) ==
    [k \in Declared(page.layers) |->
        IF k \notin Members(wall_layers) THEN FALSE
        ELSE DeclaredVisible(page.layers, k)]

\* layer_visibility.get(element.layer, True)
PassesFilter(visibility, element) ==
    IF element.layer \in DOMAIN visibility THEN visibility[element.layer]
    ELSE TRUE

\* commands.append(...) and commands.extend(...)
ExtendAtFront(commands_, new) == new \o commands_

Extend(commands_, new) == commands_ \o new

\* the loop over page.drawing_elements, from element i on
RECURSIVE convert_elements(_, _, _, _)
convert_elements(elements, visibility, i, commands_) ==
    IF i > Len(elements) THEN commands_
    ELSE IF ~PassesFilter(visibility, elements[i])
         THEN convert_elements(elements, visibility, i + 1, commands_)
         ELSE convert_elements(elements, visibility, i + 1,
                               Extend(commands_, ElementCommands(elements[i])))

\* the loop over sps_doc.pages, from page p on
RECURSIVE convert_pages(_, _, _, _)
convert_pages(pages, wall_layers, p, commands_) ==
    IF p > Len(pages) THEN commands_
    ELSE convert_pages(pages, wall_layers, p + 1,
             convert_elements(pages[p].drawing_elements,
                              layer_visibility(pages[p], wall_layers),
                              1, commands_))

convert_to_drawing_commands(engine_, sps_doc, visible_layers, wall_layers) ==
    convert_pages(sps_doc.pages,
                  EffectiveWallLayers(engine_, visible_layers, wall_layers),
                  1, <<>>)

\* an element that passes the filter raises, and the exception leaves the call
convert_raises(engine_, sps_doc, visible_layers, wall_layers) ==
    LET wall == EffectiveWallLayers(engine_, visible_layers, wall_layers)
    IN  \E p \in 1..Len(sps_doc.pages) :
            \E i \in 1..Len(sps_doc.pages[p].drawing_elements) :
                LET element == sps_doc.pages[p].drawing_elements[i]
                IN  /\ PassesFilter(layer_visibility(sps_doc.pages[p], wall),
                                    element)
                    /\ ElementRaises(element)

-----------------------------------------------------------------------------
(* The documents and arguments the conversion is called with *)

MaxElements == 2

\* layer tables: empty, one layer off, a layer outside the default list, one
\* name declared twice with different off flags, and two layers
LayerTables ==
    { <<>>,
      <<Layer("CPWALL", "7", TRUE)>>,
      <<Layer("XLAYER", "7", FALSE)>>,
      <<Layer("CPWALL", "7", TRUE), Layer("CPWALL", "7", FALSE)>>,
      <<Layer("CPWALL", "7", FALSE), Layer("CPWALL", "7", TRUE)>>,
      <<Layer("CPDOOR", "3", TRUE), Layer("XLAYER", "7", FALSE)>> }

\* one element of each class, on layers inside and outside the default list;
\* a window and a line have a color code that is a digit and no integer
\* literal
Elements ==
    { Line(<<0, 0>>, <<Units(1000), 0>>, "CPWALL", "7"),
      Text("Room", <<Units(100), Units(200)>>, "Arial", Units(10),
           Angle(0, 0), "XLAYER", "red"),
      CircleElement(<<Units(300), Units(300)>>, Units(50), "CPDOOR", "3"),
      ArcElement(<<Units(300), Units(300)>>, Units(50), Angle(0, 0),
                 Angle(0, 1), "XLAYER", "7"),
      BlockElement(BlockReference("CPDOOR1", <<Units(500), 0>>, Angle(0, 0),
                                  <<1, 1>>, "CPDOOR", "7"), <<0, 1, 0, 0>>),
      BlockElement(BlockReference("CPWIN1", <<Units(500), 0>>, Angle(0, 1),
                                  <<0, 1>>, "XLAYER", "²"), NoRounding),
      Line(<<0, 0>>, <<0, Units(1000)>>, "XLAYER", "²") }

RECURSIVE ListsUpTo(_, _)
ListsUpTo(S, n) ==
    IF n = 0 THEN {<<>>}
    ELSE ListsUpTo(S, n - 1)
         \cup { Append(l, x) : l \in { m \in ListsUpTo(S, n - 1) : Len(m) = n - 1 },
                               x \in S }

Pages ==
    { Page("Plan", "100", "", layers, elements) :
        layers \in LayerTables, elements \in ListsUpTo(Elements, MaxElements) }

\* a second page whose table declares the layer of its line off
SecondPage ==
    Page("Detail", "50", "", <<Layer("CPWALL", "7", TRUE)>>,
         <<Line(<<0, 0>>, <<0, Units(500)>>, "CPWALL", "7")>>)

SPSDocuments ==
    { SPSDocument("2.0", <<p>>) : p \in Pages }
    \cup { SPSDocument("2.0", <<p, SecondPage>>) : p \in Pages }

VisibleLayersArgs == { None, Some(<<"CPWALL">>) }

WallLayersArgs == { None, Some(<<>>), Some(<<"XLAYER", "CPDOOR">>) }

Call(op, sps_doc, visible_layers, wall_layers) ==
    [op |-> op, sps_doc |-> sps_doc, visible_layers |-> visible_layers,
     wall_layers |-> wall_layers]

NoCall == Call("none", SPSDocument("2.0", <<>>), None, None)

-----------------------------------------------------------------------------
(* Strings and numbers of the parser (src/xml_parser.py)                   *)
(*                                                                         *)
(* A string that the parser splits or converts to a number is a sequence   *)
(* of one-character strings; a string it only copies is a TLA+ string.     *)
(* The characters are the digits, ".", "-", "+", ",", " ", the exponent     *)
(* letters "e" and "E", the letter "a" and the letters of true and false.   *)
(* A number is the fixed-point integer of the engine: v * Unit.            *)

DigitChars == <<"0", "1", "2", "3", "4", "5", "6", "7", "8", "9">>

IsDigitChar(c) == \E n \in 1..Len(DigitChars) : DigitChars[n] = c

DigitValue(c) == (CHOOSE n \in 1..Len(DigitChars) : DigitChars[n] = c) - 1

\* str.strip(): blanks off both ends
RECURSIVE strip(_)
strip(s) ==
    IF s = <<>> THEN s
    ELSE IF Head(s) = " " THEN strip(Tail(s))
    ELSE IF s[Len(s)] = " " THEN strip(SubSeq(s, 1, Len(s) - 1))
    ELSE s

\* str.split(','): the parts between the commas, empty parts included
RECURSIVE split(_)
split(s) ==
    IF \A i \in 1..Len(s) : s[i] # "," THEN <<s>>
    ELSE LET i == CHOOSE k \in 1..Len(s) :
                     s[k] = "," /\ \A j \in 1..(k - 1) : s[j] # ","
         IN  <<SubSeq(s, 1, i - 1)>> \o split(SubSeq(s, i + 1, Len(s)))

Unsigned(s) == IF s # <<>> /\ Head(s) \in {"-", "+"} THEN Tail(s) ELSE s

\* the place of the point, or one past the end
PointAt(s) ==
    IF \E k \in 1..Len(s) : s[k] = "."
    THEN CHOOSE k \in 1..Len(s) : s[k] = "."
    ELSE Len(s) + 1

RECURSIVE NaturalOf(_)
NaturalOf(digits) ==
    IF digits = <<>> THEN 0
    ELSE 10 * NaturalOf(SubSeq(digits, 1, Len(digits) - 1))
         + DigitValue(digits[Len(digits)])

RECURSIVE PowerOfTen(_)
PowerOfTen(k) == IF k = 0 THEN 1 ELSE 10 * PowerOfTen(k - 1)

\* the place of the exponent letter, or one past the end
ExponentAt(s) ==
    IF \E k \in 1..Len(s) : s[k] \in {"e", "E"}
    THEN CHOOSE k \in 1..Len(s) :
             s[k] \in {"e", "E"} /\ \A j \in 1..(k - 1) : s[j] \notin {"e", "E"}
    ELSE Len(s) + 1

\* the decimal before the exponent letter
Mantissa(body) == SubSeq(body, 1, ExponentAt(body) - 1)

\* the exponent behind the letter, None without the letter
Exponent(body) ==
    IF ExponentAt(body) > Len(body) THEN None
    ELSE Some(SubSeq(body, ExponentAt(body) + 1, Len(body)))

\* float(s) raises ValueError: after strip() and a sign, s is not digits with
\* at most one point and at least one digit, followed or not by an exponent
\* letter, a sign and at least one digit
float_raises(s) ==
    LET body == Unsigned(strip(s))
        mantissa == Mantissa(body)
        exponent == Exponent(body)
    IN  \/ \E i \in 1..Len(mantissa) : ~IsDigitChar(mantissa[i]) /\ mantissa[i] # "."
        \/ Cardinality({ i \in 1..Len(mantissa) : mantissa[i] = "." }) > 1
        \/ \A i \in 1..Len(mantissa) : ~IsDigitChar(mantissa[i])
        \/ /\ exponent # None
           /\ \/ Unsigned(exponent[1]) = <<>>
              \/ \E i \in 1..Len(Unsigned(exponent[1])) :
                     ~IsDigitChar(Unsigned(exponent[1])[i])

\* float(s), for s whose mantissa has at most four decimals
float(s) ==
    LET body == Unsigned(strip(s))
        mantissa == Mantissa(body)
        exponent == Exponent(body)
        whole == SubSeq(mantissa, 1, PointAt(mantissa) - 1)
        decimals == SubSeq(mantissa, PointAt(mantissa) + 1, Len(mantissa))
        decimal == NaturalOf(whole) * Unit
                   + (NaturalOf(decimals) * Unit) \div PowerOfTen(Len(decimals))
        power == IF exponent = None THEN 0 ELSE NaturalOf(Unsigned(exponent[1]))
        magnitude == IF exponent # None /\ Head(exponent[1]) = "-"
                     THEN decimal \div PowerOfTen(power)
                     ELSE decimal * PowerOfTen(power)
    IN  IF Head(strip(s)) = "-" THEN -magnitude ELSE magnitude

RECURSIVE NaturalStr(_)
NaturalStr(n) ==
    IF n < 10 THEN <<DigitChars[n + 1]>>
    ELSE Append(NaturalStr(n \div 10), DigitChars[(n % 10) + 1])

RECURSIVE DecimalsStr(_, _)
DecimalsStr(n, width) ==
    IF n = 0 THEN <<>>
    ELSE <<DigitChars[(n \div PowerOfTen(width - 1)) + 1]>>
         \o DecimalsStr(n % PowerOfTen(width - 1), width - 1)

\* str(v) of a float v: the shortest decimal, with at least one decimal
str(v) ==
    LET whole == Abs(v) \div Unit
        decimals == ((Abs(v) % Unit) * 10000) \div Unit
    IN  (IF v < 0 THEN <<"-">> ELSE <<>>)
        \o NaturalStr(whole) \o <<".">>
        \o (IF decimals = 0 THEN <<"0">> ELSE DecimalsStr(decimals, 4))

\* str(b) of a bool b
bool_str(b) == IF b THEN "True" ELSE "False"

\* the capital letters of the off and isClosed attributes
Capitals == <<"T", "R", "U", "E", "F", "A", "L", "S">>

Smalls == <<"t", "r", "u", "e", "f", "a", "l", "s">>

\* str.lower(), character by character
lower(s) ==
    [i \in 1..Len(s) |->
        IF \E n \in 1..Len(Capitals) : Capitals[n] = s[i]
        THEN Smalls[CHOOSE n \in 1..Len(Capitals) : Capitals[n] = s[i]]
        ELSE s[i]]

\* elem.get(name, default)
Get(elem, name, default) ==
    IF name \in DOMAIN elem.attrib THEN elem.attrib[name] ELSE default

\* the first two parts of two or more
parse_coordinates_first_two(coord_str) ==
    LET parts == split(coord_str)
    IN  IF Len(parts) >= 2 /\ ~float_raises(parts[1]) /\ ~float_raises(parts[2])
        THEN <<float(parts[1]), float(parts[2])>>
        ELSE <<0, 0>>

\* parse_coordinates: two parts that are numbers, else (0.0, 0.0)
parse_coordinates(coord_str) ==
    LET parts == split(coord_str)
    IN  IF Len(parts) = 2 /\ ~float_raises(parts[1]) /\ ~float_raises(parts[2])
        THEN <<float(parts[1]), float(parts[2])>>
        ELSE <<0, 0>>

\* the exception raised inside the try of parse_coordinates, "" for none:
\* float() of a part that is no number
coordinates_error(coord_str) ==
    LET parts == split(coord_str)
    IN  IF Len(parts) = 2 /\ (float_raises(parts[1]) \/ float_raises(parts[2]))
        THEN "ValueError"
        ELSE ""

\* except (ValueError, IndexError)
coordinates_caught == {"ValueError", "IndexError"}

\* an exception of the try that the except clause lets through
parse_coordinates_raises(coord_str) ==
    coordinates_error(coord_str) \notin (coordinates_caught \cup {""})

-----------------------------------------------------------------------------
(* SPSDocumentParser: from the XML tree to the document *)

\* an element of the XML tree
Element(tag, attrib, children) ==
    [tag |-> tag, attrib |-> attrib, children |-> children]

\* elem.find(tag): the first child of that tag, or None
find(elem, tag) ==
    IF \E i \in 1..Len(elem.children) : elem.children[i].tag = tag
    THEN Some(elem.children[
             CHOOSE i \in 1..Len(elem.children) :
                 /\ elem.children[i].tag = tag
                 /\ \A j \in 1..(i - 1) : elem.children[j].tag # tag])
    ELSE None

\* elem.findall(tag)
findall(elem, tag) == SelectSeq(elem.children, LAMBDA child : child.tag = tag)

supported_elements == {"Line", "BlockReference", "Text", "Circle", "Arc", "Polyline"}

\* off without lower()
parse_layer_exact(layer_elem) ==
    Layer(Get(layer_elem, "name", ""), Get(layer_elem, "color", "7"),
          Get(layer_elem, "off", <<"f", "a", "l", "s", "e">>) = <<"t", "r", "u", "e">>)

parse_layer(layer_elem) ==
    Layer(Get(layer_elem, "name", ""), Get(layer_elem, "color", "7"),
          lower(Get(layer_elem, "off", <<"f", "a", "l", "s", "e">>))
              = <<"t", "r", "u", "e">>)

parse_line(line_elem) ==
    Line(parse_coordinates(Get(line_elem, "spt", <<"0", ",", "0">>)),
         parse_coordinates(Get(line_elem, "ept", <<"0", ",", "0">>)),
         Get(line_elem, "layer", ""), Get(line_elem, "color", ""))

parse_block_reference(block_elem) ==
    BlockReference(Get(block_elem, "name", ""),
                   parse_coordinates(Get(block_elem, "position", <<"0", ",", "0">>)),
                   float(Get(block_elem, "angle", <<"0">>)),
                   parse_coordinates(Get(block_elem, "scale", <<"1", ",", "1">>)),
                   Get(block_elem, "layer", ""), Get(block_elem, "color", ""))

parse_text(text_elem) ==
    Text(Get(text_elem, "text", ""),
         parse_coordinates(Get(text_elem, "position", <<"0", ",", "0">>)),
         Get(text_elem, "font", ""),
         float(Get(text_elem, "height", <<"1", "0">>)),
         float(Get(text_elem, "angle", <<"0">>)),
         Get(text_elem, "layer", ""), Get(text_elem, "color", ""))

parse_circle(circle_elem) ==
    CircleElement(parse_coordinates(Get(circle_elem, "center", <<"0", ",", "0">>)),
                  float(Get(circle_elem, "radius", <<"0">>)),
                  Get(circle_elem, "layer", ""), Get(circle_elem, "color", ""))

parse_arc(arc_elem) ==
    ArcElement(parse_coordinates(Get(arc_elem, "center", <<"0", ",", "0">>)),
               float(Get(arc_elem, "radius", <<"0">>)),
               float(Get(arc_elem, "startAng", <<"0">>)),
               float(Get(arc_elem, "endAng", <<"0">>)),
               Get(arc_elem, "layer", ""), Get(arc_elem, "color", ""))

\* the float() calls of the element parsers that raise; _parse_block catches
\* the exception and leaves the element out
parse_element_raises(child) ==
    IF child.tag = "BlockReference"
    THEN float_raises(Get(child, "angle", <<"0">>))
    ELSE IF child.tag = "Text"
    THEN \/ float_raises(Get(child, "height", <<"1", "0">>))
         \/ float_raises(Get(child, "angle", <<"0">>))
    ELSE IF child.tag = "Circle"
    THEN float_raises(Get(child, "radius", <<"0">>))
    ELSE IF child.tag = "Arc"
    THEN \/ float_raises(Get(child, "radius", <<"0">>))
         \/ float_raises(Get(child, "startAng", <<"0">>))
         \/ float_raises(Get(child, "endAng", <<"0">>))
    ELSE FALSE

parse_element(child) ==
    IF child.tag = "Line" THEN parse_line(child)
    ELSE IF child.tag = "BlockReference" THEN parse_block_reference(child)
    ELSE IF child.tag = "Text" THEN parse_text(child)
    ELSE IF child.tag = "Circle" THEN parse_circle(child)
    ELSE parse_arc(child)

\* [x for x in vertices_str.split(',') if x.strip()]
VertexParts(polyline_elem) ==
    SelectSeq(split(Get(polyline_elem, "vertices", <<>>)),
              LAMBDA x : strip(x) # <<>>)

\* _parse_polyline raises: a part that is no number (ValueError), or an odd
\* number of coordinates from five on (IndexError at coords[i+1])
parse_polyline_raises(polyline_elem) ==
    LET parts == VertexParts(polyline_elem)
    IN  /\ Get(polyline_elem, "vertices", <<>>) # <<>>
        /\ \/ \E i \in 1..Len(parts) : float_raises(parts[i])
           \/ Len(parts) >= 4 /\ Len(parts) % 2 = 1

\* the Lines of a Polyline: None (here the empty list, which _parse_block
\* treats alike) without vertices or with fewer than four coordinates
parse_polyline(polyline_elem) ==
    LET parts == VertexParts(polyline_elem)
        coords == [i \in 1..Len(parts) |-> float(parts[i])]
        points == [i \in 1..(Len(coords) \div 2) |->
                      <<coords[2 * i - 1], coords[2 * i]>>]
        layer == Get(polyline_elem, "layer", "")
        color == Get(polyline_elem, "color", "")
        lines == [i \in 1..(Len(points) - 1) |->
                     Line(points[i], points[i + 1], layer, color)]
        is_closed == lower(Get(polyline_elem, "isClosed", <<"f", "a", "l", "s", "e">>))
                         = <<"t", "r", "u", "e">>
    IN  IF Get(polyline_elem, "vertices", <<>>) = <<>> \/ Len(coords) < 4
        THEN <<>>
        ELSE IF is_closed /\ Len(points) > 2
        THEN Append(lines, Line(points[Len(points)], points[1], layer, color))
        ELSE lines

\* _parse_block: the loop over the children, from child i on
RECURSIVE parse_block(_, _, _)
parse_block(block_elem, i, elements) ==
    IF i > Len(block_elem.children) THEN elements
    ELSE LET child == block_elem.children[i]
         IN  parse_block(block_elem, i + 1,
                 IF child.tag = "Polyline"
                 THEN elements \o parse_polyline(child)
                 ELSE IF child.tag \in supported_elements
                         /\ ~parse_element_raises(child)
                 THEN Append(elements, parse_element(child))
                 ELSE elements)

\* only a Polyline is parsed outside the try of _parse_block
parse_block_raises(block_elem) ==
    \E i \in 1..Len(block_elem.children) :
        /\ block_elem.children[i].tag = "Polyline"
        /\ parse_polyline_raises(block_elem.children[i])

RECURSIVE Concat(_)
Concat(lists_) == IF lists_ = <<>> THEN <<>> ELSE Head(lists_) \o Concat(Tail(lists_))

Children(found, tag) == IF found = None THEN <<>> ELSE findall(found[1], tag)

parse_page(page_elem) ==
    LET database == find(page_elem, "Database")
        layer_table == IF database = None THEN None
                       ELSE find(database[1], "LayerTable")
        block_table == IF database = None THEN None
                       ELSE find(database[1], "BlockTable")
        layer_elems == Children(layer_table, "Layer")
        block_elems == Children(block_table, "Block")
    IN  Page(Get(page_elem, "title", ""), Get(page_elem, "scale", "100"),
             Get(page_elem, "note", ""),
             [i \in 1..Len(layer_elems) |-> parse_layer(layer_elems[i])],
             Concat([i \in 1..Len(block_elems) |->
                        parse_block(block_elems[i], 1, <<>>)]))

PageElems(root_) == Children(find(root_, "Pages"), "Page")

parse_sps_document(root_) ==
    SPSDocument(Get(root_, "version", "2.0"),
                [i \in 1..Len(PageElems(root_)) |-> parse_page(PageElems(root_)[i])])

parse_raises(root_) ==
    \E i \in 1..Len(PageElems(root_)) :
        LET database == find(PageElems(root_)[i], "Database")
            block_table == IF database = None THEN None
                           ELSE find(database[1], "BlockTable")
            block_elems == Children(block_table, "Block")
        IN  \E j \in 1..Len(block_elems) : parse_block_raises(block_elems[j])

-----------------------------------------------------------------------------
(* SPSDocumentParser.convert_to_standard_xml *)

standard_element(element) ==
    IF element.element_type = "Line"
    THEN [type |-> element.element_type, layer |-> element.layer,
          color |-> element.color,
          start_x |-> str(element.start_point[1]),
          start_y |-> str(element.start_point[2]),
          end_x |-> str(element.end_point[1]),
          end_y |-> str(element.end_point[2])]
    ELSE IF element.element_type = "BlockReference"
    THEN [type |-> element.element_type, layer |-> element.layer,
          color |-> element.color, name |-> element.name,
          x |-> str(element.position[1]), y |-> str(element.position[2]),
          angle |-> str(element.angle)]
    ELSE IF element.element_type = "Text"
    THEN [type |-> element.element_type, layer |-> element.layer,
          color |-> element.color, text |-> element.text,
          x |-> str(element.position[1]), y |-> str(element.position[2]),
          font |-> element.font, height |-> str(element.height),
          angle |-> str(element.angle)]
    ELSE IF element.element_type = "Circle"
    THEN [type |-> element.element_type, layer |-> element.layer,
          color |-> element.color,
          center_x |-> str(element.center[1]),
          center_y |-> str(element.center[2]),
          radius |-> str(element.radius)]
    ELSE [type |-> element.element_type, layer |-> element.layer,
          color |-> element.color,
          center_x |-> str(element.center[1]),
          center_y |-> str(element.center[2]),
          radius |-> str(element.radius),
          start_angle |-> str(element.start_angle),
          end_angle |-> str(element.end_angle)]

standard_layer(layer) ==
    Element("layer",
            [name |-> layer.name, color |-> layer.color, off |-> bool_str(layer.off)],
            <<>>)

standard_page(page) ==
    Element("page",
            [title |-> page.title, scale |-> page.scale, note |-> page.note],
            << Element("layers", <<>>,
                       [i \in 1..Len(page.layers) |-> standard_layer(page.layers[i])]),
               Element("elements", <<>>,
                       [i \in 1..Len(page.drawing_elements) |->
                           Element("element",
                                   standard_element(page.drawing_elements[i]),
                                   <<>>)]) >>)

convert_to_standard_xml(sps_doc) ==
    Element("floorplan", [version |-> sps_doc.version],
            [i \in 1..Len(sps_doc.pages) |-> standard_page(sps_doc.pages[i])])

-----------------------------------------------------------------------------
(* The XML trees the parser is given *)

MaxChildren == 2

\* children of a Block: one of each supported tag, Polylines open, closed,
\* too short, odd and with a part that is no number, an unsupported tag, a
\* Line whose coordinates are no pair and a Circle whose radius is no number
BlockChildren ==
    { Element("Line", [spt |-> <<"0", ",", "0">>, ept |-> <<"1", ",", "1">>,
                       layer |-> "CPWALL", color |-> "7"], <<>>),
      Element("BlockReference",
              [name |-> "CPDOOR1",
               position |-> <<"1", "0", "0", ".", "5", ",", "2", "0", "0">>,
               angle |-> <<"1", ".", "5">>, scale |-> <<"2", ",", "3">>,
               layer |-> "CPDOOR", color |-> "3"], <<>>),
      Element("Text", [text |-> "Room", position |-> <<"1", ",", "2">>,
                       font |-> "Arial", height |-> <<"5">>,
                       layer |-> "CPTEXT"], <<>>),
      Element("Circle", [center |-> <<"1", ",", "1">>, radius |-> <<"2">>], <<>>),
      Element("Arc", [center |-> <<"0", ",", "0">>, radius |-> <<"1">>,
                      startAng |-> <<"0">>, endAng |-> <<"9", "0">>], <<>>),
      Element("Polyline",
              [vertices |-> <<"0", ",", "0", ",", "1", ",", "1", ",", "2", ",", "2">>,
               layer |-> "0", color |-> "7"], <<>>),
      Element("Polyline",
              [vertices |-> <<"0", ",", "0", ",", "1", ",", "1", ",", "2", ",", "2">>,
               isClosed |-> <<"T", "R", "U", "E">>, layer |-> "0"], <<>>),
      Element("Polyline", [vertices |-> <<"0", ",", "0", ",", "1">>], <<>>),
      Element("Polyline",
              [vertices |-> <<"0", ",", "0", ",", "1", ",", "1", ",", "2">>], <<>>),
      Element("Polyline",
              [vertices |-> <<"0", ",", "0", ",", "a", ",", "1">>], <<>>),
      Element("Hatch", [layer |-> "CPWALL"], <<>>),
      Element("Line", [spt |-> <<"1", " ", "2">>, ept |-> <<" ", "-", "3", ".", "2", "5", ",", "4">>],
              <<>>),
      Element("Circle", [center |-> <<"1", ",", "1">>, radius |-> <<"a">>], <<>>) }

LayerTableElems ==
    { Element("LayerTable", [name |-> "layers"],
              << Element("Layer", [name |-> "CPWALL", color |-> "1",
                                   off |-> <<"T", "R", "U", "E">>], <<>>),
                 Element("Layer", [name |-> "CPDOOR"], <<>>) >>),
      Element("LayerTable", [name |-> "layers"],
              << Element("Layer", [name |-> "0", off |-> <<"f", "a", "l", "s", "e">>], <<>>) >>) }

\* the values of the off attribute: true and false in lower, upper and mixed
\* case, the digits, the empty string, a blank before true
OffValues ==
    { <<"t", "r", "u", "e">>, <<"T", "r", "u", "e">>, <<"T", "R", "U", "E">>,
      <<"t", "R", "u", "E">>, <<"f", "a", "l", "s", "e">>,
      <<"F", "a", "l", "s", "e">>, <<"F", "A", "L", "S", "E">>, <<"0">>, <<"1">>,
      <<>>, <<" ", "t", "r", "u", "e">>, <<"t", "r", "u", "e", "1">> }

\* layer tables of one Layer with an off attribute, then one without
OffLayerTableElems ==
    { Element("LayerTable", [name |-> "layers"],
              << Element("Layer", [name |-> "L", color |-> "1", off |-> v], <<>>),
                 Element("Layer", [name |-> "M", color |-> "1"], <<>>) >>) :
        v \in OffValues }

BlockElems ==
    { Element("Block", [name |-> "*Model_Space"], children) :
        children \in ListsUpTo(BlockChildren, MaxChildren) }

PageElem(database_children) ==
    Element("Page", [title |-> "Plan", scale |-> "100"],
            << Element("Database", [name |-> "db"], database_children) >>)

\* documents of one page with a layer table and a block, and documents that
\* lack the layer table, the block table, the database, the pages
Roots ==
    { Element("SPSDocument", [version |-> "2.0"],
              << Element("Pages", [name |-> "pages"],
                         << PageElem(<< t, Element("BlockTable", [name |-> "blocks"], <<b>>) >>) >>) >>) :
        t \in LayerTableElems, b \in BlockElems }
    \cup
    { Element("SPSDocument", [version |-> "2.0"],
              << Element("Pages", [name |-> "pages"], << PageElem(<<t>>) >>) >>) :
        t \in LayerTableElems \cup OffLayerTableElems }
    \cup
    { Element("SPSDocument", [version |-> "2.0"],
              << Element("Pages", [name |-> "pages"],
                         << PageElem(<< Element("BlockTable", [name |-> "blocks"], <<b>>) >>),
                            Element("Page", [title |-> "Empty"], <<>>) >>) >>) :
        b \in BlockElems }
    \cup
    { Element("SPSDocument", [creator |-> "cad"], <<>>) }

NoRoot == Element("", [name |-> ""], <<>>)

-----------------------------------------------------------------------------
(* The strings parse_coordinates is given *)

MaxParts == 3

\* the parts between the commas: numbers plain, negative, with an exponent,
\* with blanks around, without a digit before the point; and parts that are
\* no number
CoordinateParts ==
    { <<"1">>, <<"-", "2", ".", "5">>, <<"1", "e", "3">>, <<"5", "e", "-", "1">>,
      <<" ", "3", " ">>, <<"+", ".", "5">>, <<"1", "E", "2">>,
      <<>>, <<"a">>, <<"1", ".", "2", ".", "3">>, <<"e", "5">>, <<"1", "e", "-">> }

\* ','.join(parts)
RECURSIVE Join(_)
Join(parts) ==
    IF parts = <<>> THEN <<>>
    ELSE IF Len(parts) = 1 THEN parts[1]
    ELSE parts[1] \o <<",">> \o Join(Tail(parts))

-----------------------------------------------------------------------------
(* The frames of two conversions running at once *)

Procs == {1, 2}

\* the locals of a call: its position (pc, page, element), wall_layers after
\* line 105, and commands; overlapped records that the other call was running
\* at some moment of this one
Frame(pc_, call_, wall_layers, page, element, commands_, overlapped) ==
    [pc |-> pc_, call |-> call_, wall_layers |-> wall_layers, page |-> page,
     element |-> element, commands |-> commands_, overlapped |-> overlapped]

NoFrame == Frame("idle", NoCall, <<>>, 0, 0, <<>>, FALSE)

-----------------------------------------------------------------------------
(* The state machine: a call of _convert_block_reference and its return *)

Init ==
    /\ pc = "idle"
    /\ block = NoBlock
    /\ rounding = NoRounding
    /\ commands = <<>>
    /\ engine = DrawingEngine
    /\ call = NoCall
    /\ document = NoCall.sps_doc
    /\ lists = <<>>
    /\ returned_list = 0
    /\ created = 0
    /\ previous = None
    /\ frames = [p \in Procs |-> NoFrame]
    /\ visibilities = [p \in Procs |-> <<>>]
    /\ root = NoRoot
    /\ standard_xml = NoRoot
    /\ coord_arg = <<>>
    /\ coordinates = <<0, 0>>

ConvertBlockReference ==
    /\ pc = "idle"
    /\ \E b \in BlockReferences :
        \E r \in RoundingsOf(b) :
            /\ block' = b
            /\ rounding' = r
            /\ commands' = convert_block_reference(b, r)
    /\ pc' = "returned"
    /\ UNCHANGED <<engine, call, document,
                   lists, returned_list, created, previous, frames, visibilities, root, standard_xml,
                   coord_arg, coordinates>>

\* the caller drops the result; the engine keeps nothing of the call
Return ==
    /\ pc \in {"returned", "raised"}
    /\ pc' = "idle"
    /\ block' = NoBlock
    /\ rounding' = NoRounding
    /\ commands' = <<>>
    /\ call' = NoCall
    /\ document' = NoCall.sps_doc
    /\ lists' = [l \in { h \in DOMAIN lists : h # returned_list } |-> lists[l]]
    /\ returned_list' = 0
    /\ UNCHANGED <<engine, created, previous, frames, visibilities, root, standard_xml,
                   coord_arg, coordinates>>

Next == ConvertBlockReference \/ Return

Spec == Init /\ [][Next]_vars

-----------------------------------------------------------------------------
(* Whole conversions: convert_to_drawing_commands and create_floor_plan *)

\* what a call leaves of the engine it ran on and of the document it was given
EngineLearnsLayers(engine_, sps_doc) ==
    [engine_ EXCEPT !.default_visible_layers =
        IF sps_doc.pages = <<>> \/ sps_doc.pages[1].layers = <<>> THEN @
        ELSE Append(@, sps_doc.pages[1].layers[1].name)]

EngineAfterCall(engine_, sps_doc) == engine_

DocumentAfterCall(sps_doc) == sps_doc

\* one call of engine.convert_to_drawing_commands, to its return or its raise
Convert(sps_doc, visible_layers, wall_layers) ==
    /\ call' = Call("convert_to_drawing_commands", sps_doc, visible_layers,
                    wall_layers)
    /\ IF convert_raises(engine, sps_doc, visible_layers, wall_layers)
       THEN pc' = "raised" /\ commands' = <<>>
       ELSE /\ pc' = "returned"
            /\ commands' = convert_to_drawing_commands(engine, sps_doc,
                                                       visible_layers, wall_layers)
    /\ engine' = EngineAfterCall(engine, sps_doc)
    /\ document' = DocumentAfterCall(sps_doc)

ConvertToDrawingCommands ==
    /\ pc = "idle"
    /\ \E sps_doc \in SPSDocuments :
        \E visible_layers \in VisibleLayersArgs :
            \E wall_layers \in WallLayersArgs :
                Convert(sps_doc, visible_layers, wall_layers)
    /\ UNCHANGED <<block, rounding, lists, returned_list, created, previous,
                   frames, visibilities, root, standard_xml,
                   coord_arg, coordinates>>

\* create_floor_plan: a new engine converts the document with
\* visible_layers=visible_layers; the commands are those handed to the renderer
CreateFloorPlan ==
    /\ pc = "idle"
    /\ \E sps_doc \in SPSDocuments :
        \E visible_layers \in VisibleLayersArgs :
            /\ call' = Call("create_floor_plan", sps_doc, visible_layers, None)
            /\ IF convert_raises(DrawingEngine, sps_doc, visible_layers, None)
               THEN pc' = "raised" /\ commands' = <<>>
               ELSE /\ pc' = "returned"
                    /\ commands' = convert_to_drawing_commands(
                                       DrawingEngine, sps_doc, visible_layers, None)
            /\ document' = DocumentAfterCall(sps_doc)
    /\ UNCHANGED <<block, rounding, engine,
                   lists, returned_list, created, previous, frames, visibilities, root, standard_xml,
                   coord_arg, coordinates>>

NextDoc == ConvertToDrawingCommands \/ CreateFloorPlan \/ Return

SpecDoc == Init /\ [][NextDoc]_vars

-----------------------------------------------------------------------------
(* Conversions one after the other on one engine, the caller keeping a list *)

MaxCalls == 3

\* documents of the conversions that follow one another
FewDocuments ==
    { SPSDocument("2.0", <<Page("Plan", "100", "", <<Layer("XLAYER", "7", FALSE)>>,
                         <<Text("Room", <<Units(100), Units(200)>>, "Arial",
                                Units(10), Angle(0, 0), "XLAYER", "red")>>)>>),
      SPSDocument("2.0", <<Page("Plan", "100", "", <<>>,
                         <<BlockElement(BlockReference("CPDOOR1",
                               <<Units(500), 0>>, Angle(0, 0), <<1, 1>>,
                               "CPDOOR", "7"), <<0, 1, 0, 0>>),
                           Line(<<0, 0>>, <<Units(1000), 0>>, "CPWALL", "7")>>)>>),
      SPSDocument("2.0", <<Page("Plan", "100", "", <<Layer("CPWALL", "7", TRUE)>>,
                         <<Line(<<0, 0>>, <<Units(1000), 0>>, "CPWALL", "7"),
                           CircleElement(<<Units(300), Units(300)>>, Units(50),
                                         "CPDOOR", "3")>>),
                    SecondPage>>),
      SPSDocument("2.0", <<Page("Plan", "100", "", <<>>,
                         <<Line(<<0, 0>>, <<0, Units(1000)>>, "XLAYER", "²")>>)>>) }

\* commands = [] makes a new list object; objects are numbered as created
SameList(created_) == 1

NewList(created_) == created_ + 1

\* one call on the engine, its result in a list object of its own
ConvertOnEngine ==
    /\ pc = "idle"
    /\ created < MaxCalls
    /\ \E sps_doc \in FewDocuments :
        \E wall_layers \in WallLayersArgs :
            Convert(sps_doc, None, wall_layers)
    /\ created' = created + 1
    /\ returned_list' = IF pc' = "returned" THEN NewList(created) ELSE 0
    /\ lists' = IF pc' = "returned"
                THEN [l \in (DOMAIN lists) \cup {NewList(created)} |->
                         IF l = NewList(created) THEN commands' ELSE lists[l]]
                ELSE lists
    /\ UNCHANGED <<block, rounding, previous, frames, visibilities, root, standard_xml,
                   coord_arg, coordinates>>

\* the caller keeps the returned list, and the call it came from, for later
Keep ==
    /\ pc = "returned"
    /\ returned_list # 0
    /\ pc' = "idle"
    /\ previous' = Some([call |-> call, list |-> returned_list,
                         commands |-> commands])
    /\ lists' = [l \in {returned_list} |-> lists[l]]
    /\ returned_list' = 0
    /\ commands' = <<>>
    /\ call' = NoCall
    /\ document' = NoCall.sps_doc
    /\ UNCHANGED <<block, rounding, engine, created, frames, visibilities, root, standard_xml,
                   coord_arg, coordinates>>

\* the caller goes on with a new engine: DrawingEngine()
NewEngine ==
    /\ pc = "idle"
    /\ engine' = DrawingEngine
    /\ UNCHANGED <<pc, block, rounding, commands, call, document,
                   lists, returned_list, created, previous, frames, visibilities, root, standard_xml,
                   coord_arg, coordinates>>

NextCalls == ConvertOnEngine \/ Keep \/ Return \/ NewEngine

SpecCalls == Init /\ [][NextCalls]_vars

-----------------------------------------------------------------------------
(* Two conversions at once on one engine, statement by statement *)

\* the variables of the conversions that run one at a time
sequential ==
    <<pc, block, rounding, commands, engine, call, document,
      lists, returned_list, created, previous, root, standard_xml,
                   coord_arg, coordinates>>

Running(q) == frames[q].pc \in {"pages", "elements"}

\* layer_visibility is a local of the call: each call has its own
SharedSlot(p) == 1

VisibilitySlot(p) == p

\* lines 102-105: commands = [], wall_layers = wall_layers or the default
Start(p) ==
    /\ frames[p].pc = "idle"
    /\ \E sps_doc \in FewDocuments :
        \E wall_layers \in WallLayersArgs :
            /\ \A q \in Procs \ {p} :
                  frames[q].pc = "idle" \/ frames[q].call.sps_doc # sps_doc
            /\ frames' =
                 [q \in Procs |->
                    IF q = p
                    THEN Frame("pages",
                               Call("convert_to_drawing_commands", sps_doc,
                                    None, wall_layers),
                               EffectiveWallLayers(engine, None, wall_layers),
                               1, 0, <<>>, \E r \in Procs \ {p} : Running(r))
                    ELSE [frames[q] EXCEPT !.overlapped = @ \/ Running(q)]]
    /\ UNCHANGED <<visibilities, sequential>>

\* lines 106-110: the next page, its layer_visibility built and pruned
BeginPage(p) ==
    /\ frames[p].pc = "pages"
    /\ frames[p].page <= Len(frames[p].call.sps_doc.pages)
    /\ visibilities' =
         [visibilities EXCEPT ![VisibilitySlot(p)] =
            layer_visibility(frames[p].call.sps_doc.pages[frames[p].page],
                             frames[p].wall_layers)]
    /\ frames' = [frames EXCEPT ![p].pc = "elements", ![p].element = 1]
    /\ UNCHANGED sequential

\* lines 111-134: one turn of the loop over the elements of the page
ConvertElement(p) ==
    /\ frames[p].pc = "elements"
    /\ LET elements ==
             frames[p].call.sps_doc.pages[frames[p].page].drawing_elements
       IN  /\ frames[p].element <= Len(elements)
           /\ LET element == elements[frames[p].element]
              IN  frames' =
                    IF ~PassesFilter(visibilities[VisibilitySlot(p)], element)
                    THEN [frames EXCEPT ![p].element = @ + 1]
                    ELSE IF ElementRaises(element)
                    THEN [frames EXCEPT ![p].pc = "raised"]
                    ELSE [frames EXCEPT
                            ![p].element = @ + 1,
                            ![p].commands = Extend(@, ElementCommands(element))]
    /\ UNCHANGED <<visibilities, sequential>>

\* the loop over the elements ends
EndPage(p) ==
    /\ frames[p].pc = "elements"
    /\ frames[p].element >
         Len(frames[p].call.sps_doc.pages[frames[p].page].drawing_elements)
    /\ frames' = [frames EXCEPT ![p].pc = "pages", ![p].page = @ + 1]
    /\ UNCHANGED <<visibilities, sequential>>

\* lines 135-139: the loop over the pages ends, return commands
Finish(p) ==
    /\ frames[p].pc = "pages"
    /\ frames[p].page > Len(frames[p].call.sps_doc.pages)
    /\ frames' = [frames EXCEPT ![p].pc = "returned"]
    /\ UNCHANGED <<visibilities, sequential>>

\* the caller has the result or the exception; the frame is gone
Collect(p) ==
    /\ frames[p].pc \in {"returned", "raised"}
    /\ frames' = [frames EXCEPT ![p] = NoFrame]
    /\ UNCHANGED <<visibilities, sequential>>

NextConcurrent ==
    \E p \in Procs :
        \/ Start(p)
        \/ BeginPage(p)
        \/ ConvertElement(p)
        \/ EndPage(p)
        \/ Finish(p)
        \/ Collect(p)

SpecConcurrent == Init /\ [][NextConcurrent]_vars

-----------------------------------------------------------------------------
(* Parsing a document and writing it as standard XML *)

\* parse_file, from the root of the tree: the document, or the exception of a
\* Polyline
ParseFile ==
    /\ pc = "idle"
    /\ \E root_ \in Roots :
        /\ root' = root_
        /\ IF parse_raises(root_)
           THEN pc' = "raised" /\ document' = NoCall.sps_doc
           ELSE pc' = "parsed" /\ document' = parse_sps_document(root_)
    /\ UNCHANGED <<block, rounding, commands, engine, call, lists,
                   returned_list, created, previous, frames, visibilities,
                   standard_xml,
                   coord_arg, coordinates>>

ConvertToStandardXml ==
    /\ pc = "parsed"
    /\ pc' = "written"
    /\ standard_xml' = convert_to_standard_xml(document)
    /\ UNCHANGED <<block, rounding, commands, engine, call, document, lists,
                   returned_list, created, previous, frames, visibilities, root,
                   coord_arg, coordinates>>

\* the caller is done with the document
Discard ==
    /\ pc \in {"parsed", "written", "raised"}
    /\ pc' = "idle"
    /\ root' = NoRoot
    /\ document' = NoCall.sps_doc
    /\ standard_xml' = NoRoot
    /\ UNCHANGED <<block, rounding, commands, engine, call, lists,
                   returned_list, created, previous, frames, visibilities,
                   coord_arg, coordinates>>

NextParser == ParseFile \/ ConvertToStandardXml \/ Discard

SpecParser == Init /\ [][NextParser]_vars

-----------------------------------------------------------------------------
(* The state machine of parse_coordinates: a call and its return *)

ParseCoordinates ==
    /\ pc = "idle"
    /\ \E parts \in ListsUpTo(CoordinateParts, MaxParts) :
        /\ coord_arg' = Join(parts)
        /\ IF parse_coordinates_raises(Join(parts))
           THEN pc' = "raised" /\ coordinates' = <<0, 0>>
           ELSE pc' = "coordinates" /\ coordinates' = parse_coordinates(Join(parts))
    /\ UNCHANGED <<block, rounding, commands, engine, call, document, lists,
                   returned_list, created, previous, frames, visibilities, root,
                   standard_xml>>

\* the caller drops the pair
ReturnCoordinates ==
    /\ pc \in {"coordinates", "raised"}
    /\ pc' = "idle"
    /\ coord_arg' = <<>>
    /\ coordinates' = <<0, 0>>
    /\ UNCHANGED <<block, rounding, commands, engine, call, document, lists,
                   returned_list, created, previous, frames, visibilities, root,
                   standard_xml>>

NextCoordinates == ParseCoordinates \/ ReturnCoordinates

SpecCoordinates == Init /\ [][NextCoordinates]_vars

-----------------------------------------------------------------------------
(* Vocabulary of the properties *)

Returned == pc = "returned"

CatalogDoors == {"CPDOOR1", "CPDOOR5"}

StairNames == {"CPDOOR2", "계단-6"}

CatalogNames == DoorSymbols \cup WindowSymbols \cup StairNames

\* The positional overrides as a table: the anchor in hundredths, the signs
\* put on (|hx|, |hy|) before scaling and rotating by angle, and the quarter
\* turns added to angle for the arc's start.
ExceptionTable ==
    << [ax |-> 760307, ay |-> 1506740, sign |-> <<1, 1>>, quarter |-> 1],
       [ax |-> 2026690, ay |-> 1041400, sign |-> <<-1, 1>>, quarter |-> -1],
       [ax |-> 1804190, ay |-> 1042470, sign |-> <<-1, 1>>, quarter |-> -1],
       [ax |-> 2118850, ay |-> 1202080, sign |-> <<-1, 1>>, quarter |-> -1],
       [ax |-> 419579, ay |-> 2373280, sign |-> <<-1, 1>>, quarter |-> -1],
       [ax |-> 1476520, ay |-> 820818, sign |-> <<-1, 1>>, quarter |-> -1] >>

ThresholdEntry == [sign |-> <<-1, 1>>, quarter |-> 1]

WithinTolerance(b, e) ==
    /\ Abs(b.position[1] - Hundredths(e.ax)) < Units(20)
    /\ Abs(b.position[2] - Hundredths(e.ay)) < Units(20)

MatchingEntries(b) == { i \in DOMAIN ExceptionTable : WithinTolerance(b, ExceptionTable[i]) }

AboveThreshold(b) == b.position[2] > Units(19000)

MatchesOverride(b) == MatchingEntries(b) # {} \/ AboveThreshold(b)

\* the entry that applies to b: the first matching coordinate entry, else the threshold
ForcedEntry(b) ==
    IF MatchingEntries(b) # {}
    THEN ExceptionTable[CHOOSE i \in MatchingEntries(b) : \A j \in MatchingEntries(b) : i <= j]
    ELSE ThresholdEntry

\* the hinge offset the catalog gives a name, (0, 0) for a name without one
HingeOf(name) ==
    IF name \in DOMAIN door_block_defs THEN door_block_defs[name].hinge_offset
    ELSE <<0, 0>>

\* sx after substituting (1, 1) for (0, 0)
EffectiveSx(b) == IF b.scale = <<0, 0>> THEN 1 ELSE b.scale[1]

EffectiveSy(b) == IF b.scale = <<0, 0>> THEN 1 ELSE b.scale[2]

\* radius of a door without a fixed radius, as the specification states it
SpecRadius(b) == IF EffectiveSx(b) \in {0, 1} THEN Units(900) ELSE Units(EffectiveSx(b))

\* position + Rotate(angle) . (sign * |hinge| * scale)
HingeCentre(b, sign) ==
    LET hx == sign[1] * Abs(HingeOf(b.name)[1]) * EffectiveSx(b)
        hy == sign[2] * Abs(HingeOf(b.name)[2]) * EffectiveSy(b)
    IN  << b.position[1] + (hx * Cos5(b.angle) - hy * Sin5(b.angle)) \div 5,
           b.position[2] + (hx * Sin5(b.angle) + hy * Cos5(b.angle)) \div 5 >>

\* the point of the arc at its start angle
ArcStartPoint(arc) ==
    << arc.x + (arc.radius * Cos5(arc.start_angle)) \div 5,
       arc.y + (arc.radius * Sin5(arc.start_angle)) \div 5 >>

IsDoorPair(cmds) ==
    /\ Len(cmds) = 2
    /\ cmds[1].kind = "Arc"
    /\ cmds[2].kind = "Line"

-----------------------------------------------------------------------------
(* C1 *)

\* squared distance, as computed in the call, from the panel endpoint of the
\* candidate (sign, quarter) to block.position
CandidateDistance(b, sign, quarter, err) ==
    LET c == HingeCentre(b, <<sign, sign>>)
        a == AddQuarter(b.angle, quarter)
        ex == c[1] + (SpecRadius(b) * Cos5(a)) \div 5
        ey == c[2] + (SpecRadius(b) * Sin5(a)) \div 5
    IN  BigAdd(BigAdd(Square(ex - b.position[1]), Square(ey - b.position[2])),
               [hi |-> 0, lo |-> err])

\* the four candidates in iteration order
CandidateOrder == << <<1, 1>>, <<1, -1>>, <<-1, 1>>, <<-1, -1>> >>

DistanceOf(b, r, i) == CandidateDistance(b, CandidateOrder[i][1], CandidateOrder[i][2], r[i])

\* i has the maximum distance and is the first to have it
FirstMaximum(b, r, i) ==
    /\ \A j \in 1..4 : ~BigGt(DistanceOf(b, r, j), DistanceOf(b, r, i))
    /\ \A j \in 1..(i - 1) : BigGt(DistanceOf(b, r, i), DistanceOf(b, r, j))

\* C1: a catalog door (CPDOOR1, CPDOOR5) that matches no positional override
\* is emitted with the arc centre and start angle of the candidate of maximum
\* squared panel-endpoint distance from block.position, the first such
\* candidate in iteration order when several tie.
C1_MaxDistanceFirstWins ==
    (Returned /\ block.name \in CatalogDoors /\ ~MatchesOverride(block)) =>
        \E i \in 1..4 :
            /\ FirstMaximum(block, rounding, i)
            /\ IsDoorPair(commands)
            /\ <<commands[1].x, commands[1].y>>
                 = HingeCentre(block, <<CandidateOrder[i][1], CandidateOrder[i][1]>>)
            /\ commands[1].start_angle = AddQuarter(block.angle, CandidateOrder[i][2])

\* a tie of the second and third candidates above the others: the second wins
C1_Witness ==
    /\ Returned
    /\ block.name = "CPDOOR5"
    /\ ~MatchesOverride(block)
    /\ block.angle = Angle(1, 1)
    /\ block.scale = <<2, 1>>
    /\ rounding = <<0, 1, 1, 0>>
    /\ commands[1].start_angle = AddQuarter(block.angle, -1)
    /\ <<commands[1].x, commands[1].y>> = HingeCentre(block, <<1, 1>>)

-----------------------------------------------------------------------------
(* C2 *)

\* C2 (as claimed): a block dispatched to the door resolver (CPDOOR1, CPDOOR5,
\* DOOR) whose position matches an override is emitted with exactly the forced
\* configuration of its entry: the hinge at the forced signs, the arc starting
\* at angle plus the forced offset, the panel from the hinge to the arc's start.
C2_OverrideForcesConfiguration ==
    (Returned /\ block.name \in DoorSymbols /\ MatchesOverride(block)) =>
        LET e == ForcedEntry(block)
        IN  /\ IsDoorPair(commands)
            /\ <<commands[1].x, commands[1].y>> = HingeCentre(block, e.sign)
            /\ commands[1].start_angle = AddQuarter(block.angle, e.quarter)
            /\ commands[1].end_angle = AddQuarter(block.angle, e.quarter + 1)
            /\ <<commands[2].x1, commands[2].y1>> = HingeCentre(block, e.sign)
            /\ <<commands[2].x2, commands[2].y2>> = ArcStartPoint(commands[1])

\* what does hold: the same, for the doors that have a hinge definition
C2_CatalogDoorsForced ==
    (Returned /\ block.name \in CatalogDoors /\ MatchesOverride(block)) =>
        LET e == ForcedEntry(block)
        IN  /\ IsDoorPair(commands)
            /\ <<commands[1].x, commands[1].y>> = HingeCentre(block, e.sign)
            /\ commands[1].start_angle = AddQuarter(block.angle, e.quarter)
            /\ commands[1].radius = SpecRadius(block)
            /\ <<commands[2].x2, commands[2].y2>> = ArcStartPoint(commands[1])

-----------------------------------------------------------------------------
(* C3 *)

\* C3 (as claimed): whatever the name, a block with scale (0, 0) is resolved
\* to the same command list as the block with scale (1, 1).
C3_ZeroScaleIsUnitScale ==
    (Returned /\ block.scale = <<0, 0>>) =>
        commands = convert_block_reference([block EXCEPT !.scale = <<1, 1>>], rounding)

\* the names for which it does hold: the doors with a hinge definition and the stairs
C3_HoldsForCatalogDoorsAndStairs ==
    (Returned /\ block.scale = <<0, 0>> /\ block.name \in CatalogDoors \cup StairNames) =>
        commands = convert_block_reference([block EXCEPT !.scale = <<1, 1>>], rounding)

-----------------------------------------------------------------------------
(* C4 *)

\* C4: every resolution of a door block emits exactly an Arc then a Line; the
\* arc ends 90 degrees after it starts; the Line runs from the arc's centre to
\* the point of the arc at its start angle.
C4_DoorIsArcAndPanel ==
    (Returned /\ block.name \in DoorSymbols) =>
        /\ IsDoorPair(commands)
        /\ commands[1].end_angle = AddQuarter(commands[1].start_angle, 1)
        /\ <<commands[2].x1, commands[2].y1>> = <<commands[1].x, commands[1].y>>
        /\ <<commands[2].x2, commands[2].y2>> = ArcStartPoint(commands[1])

\* CPDOOR1 at (500, 0), angle 0, scale (1, 1)
C4_Witness ==
    /\ Returned
    /\ block.name = "CPDOOR1"
    /\ block.position = <<Units(500), 0>>
    /\ block.angle = Angle(0, 0)
    /\ block.scale = <<1, 1>>
    /\ IsDoorPair(commands)
    /\ commands[1].radius = Units(900)

-----------------------------------------------------------------------------
(* C5 *)

\* C5 (as claimed): a door without a fixed radius (CPDOOR1, CPDOOR5, DOOR) is
\* emitted with radius 900 when the effective sx is 0 or 1, and sx otherwise.
C5_DoorRadius ==
    (Returned /\ block.name \in DoorSymbols) =>
        /\ commands[1].kind = "Arc"
        /\ commands[1].radius = SpecRadius(block)

\* what does hold: the rule, for the doors that have a hinge definition
C5_CatalogDoorRadius ==
    (Returned /\ block.name \in CatalogDoors) =>
        /\ commands[1].kind = "Arc"
        /\ commands[1].radius = SpecRadius(block)

-----------------------------------------------------------------------------
(* C6 *)

\* C6 (as claimed): the block with a fixed radius, A$C139426D3, is resolved as
\* a door: an Arc and a Line, the arc of radius fixed_radius * sx.
C6_FixedRadiusDoor ==
    (Returned /\ block.name = "A$C139426D3") =>
        /\ IsDoorPair(commands)
        /\ commands[1].radius = TenThousandths(9586670) * EffectiveSx(block)

-----------------------------------------------------------------------------
(* C7 *)

-----------------------------------------------------------------------------
(* C8 *)

IsLine(c) == c.kind = "Line"

IsSymbol(c) == c.kind = "Symbol"

\* the Line commands of a command list, in order
LinesOf(cmds) == SelectSeq(cmds, IsLine)

\* p translated by -position and rotated by -angle
Normalised(b, p) ==
    LET ox == p[1] - b.position[1]
        oy == p[2] - b.position[2]
    IN  << (ox * Cos5(b.angle) + oy * Sin5(b.angle)) \div 5,
           (oy * Cos5(b.angle) - ox * Sin5(b.angle)) \div 5 >>

\* width of a window as the specification resolves it
ResolvedWidth(b) == IF b.scale[1] = 0 THEN Units(1200) ELSE Units(Abs(b.scale[1]))

CanonicalCorners(b) ==
    { << sx * (ResolvedWidth(b) \div 2), sy * (Units(200) \div 2) >> :
        sx \in {-1, 1}, sy \in {-1, 1} }

\* C8: the start points of the four Line commands of a window, translated by
\* -position and rotated by -angle, are exactly the corners (+-w/2, +-t/2) with
\* w the resolved width and t = 200; each line ends where the next starts and
\* the last ends where the first starts.
C8_WindowCorners ==
    (Returned /\ block.name \in WindowSymbols) =>
        LET ls == LinesOf(commands)
        IN  /\ Len(ls) = 4
            /\ { Normalised(block, <<ls[i].x1, ls[i].y1>>) : i \in 1..4 }
                 = CanonicalCorners(block)
            /\ Cardinality(CanonicalCorners(block)) = 4
            /\ \A i \in 1..4 :
                 <<ls[i].x2, ls[i].y2>> = <<ls[(i % 4) + 1].x1, ls[(i % 4) + 1].y1>>

\* a window turned by theta + 90 degrees, mirrored in x
C8_Witness ==
    /\ Returned
    /\ block.name = "CPWINDOW8"
    /\ block.angle = Angle(1, 1)
    /\ block.scale = <<-1, 2>>
    /\ Len(LinesOf(commands)) = 4
    /\ Normalised(block, <<commands[2].x1, commands[2].y1>>)
         = <<-(Units(1) \div 2), -Units(100)>>

-----------------------------------------------------------------------------
(* C9 *)

SquaredLength(l) == BigAdd(Square(l.x2 - l.x1), Square(l.y2 - l.y1))

\* C9: a window's resolved width is 1200 when scale.x = 0, whatever scale.y
\* is, and abs(scale.x) otherwise, hence never zero; the output is exactly four
\* Line commands and exactly one Symbol command of kind WINDOW at the position.
C9_WindowWidthAndShape ==
    (Returned /\ block.name \in WindowSymbols) =>
        LET ls == LinesOf(commands)
            ss == SelectSeq(commands, IsSymbol)
        IN  /\ Len(commands) = 5
            /\ Len(ls) = 4
            /\ Len(ss) = 1
            /\ ss[1].symbol_type = "WINDOW"
            /\ <<ss[1].x, ss[1].y>> = block.position
            /\ SquaredLength(ls[1]) = Square(ResolvedWidth(block))
            /\ SquaredLength(ls[3]) = Square(ResolvedWidth(block))
            /\ SquaredLength(ls[2]) = Square(Units(200))
            /\ SquaredLength(ls[4]) = Square(Units(200))
            /\ <<ls[1].x1, ls[1].y1>> # <<ls[1].x2, ls[1].y2>>

\* the window with scale (0, 1): width 1200
C9_Witness ==
    /\ Returned
    /\ block.name = "CPWIN1"
    /\ block.scale = <<0, 1>>
    /\ block.angle = Angle(1, 0)
    /\ Len(commands) = 5
    /\ SquaredLength(LinesOf(commands)[1]) = Square(Units(1200))

-----------------------------------------------------------------------------
(* C10 *)

\* the blocks that differ from b at most in scale.y, the scale not (0, 0)
ScaleYVariants(b) ==
    { [b EXCEPT !.scale = <<b.scale[1], sy>>] :
        sy \in { v \in -1..MaxScale : <<b.scale[1], v>> # <<0, 0>> } }

-----------------------------------------------------------------------------
(* Vocabulary of the conversion properties *)

Converted == pc = "returned" /\ call.op = "convert_to_drawing_commands"

Rendered == pc = "returned" /\ call.op = "create_floor_plan"

\* the allow-list in force: the list the caller supplied, else the built-in one
AllowList ==
    IF call.wall_layers # None /\ call.wall_layers[1] # <<>>
    THEN call.wall_layers[1] ELSE default_visible_layers

CommandLayers == { commands[i].layer : i \in 1..Len(commands) }

\* the places <<page, index>> of the elements of the document of the call
Places ==
    UNION { { <<p, i>> : i \in 1..Len(call.sps_doc.pages[p].drawing_elements) } :
              p \in 1..Len(call.sps_doc.pages) }

ElementAt(s) == call.sps_doc.pages[s[1]].drawing_elements[s[2]]

LayersAt(s) == call.sps_doc.pages[s[1]].layers

\* some declaration of the layer in the table has off = true
DeclaredOff(layers, name) ==
    \E i \in 1..Len(layers) : layers[i].name = name /\ layers[i].off

\* the declaration of the layer that comes last in the table has off = true
LastDeclaredOff(layers, name) ==
    \E i \in 1..Len(layers) :
        /\ layers[i].name = name /\ layers[i].off
        /\ \A j \in (i + 1)..Len(layers) : layers[j].name # name

(* C11: no element whose layer is outside the allow-list in force adds a    *)
(* command to the output, declared in the layer table of its page or not:   *)
(* every command of the output is on a layer of the allow-list.             *)
C11_AbsentLayerContributesNothing ==
    Converted => \A s \in Places :
        ElementAt(s).layer \notin Members(AllowList)
            => ElementAt(s).layer \notin CommandLayers

(* C12: when the caller passes visible_layers, to convert_to_drawing_commands *)
(* or to create_floor_plan, every returned command is on a layer of that     *)
(* list.                                                                     *)
C12_FilteredByVisibleLayers ==
    (pc = "returned" /\ call.visible_layers # None)
        => CommandLayers \subseteq Members(call.visible_layers[1])

(* C13: an element whose layer is declared with off = true in the layer     *)
(* table of its page adds no command, even with the layer in the allow-list: *)
(* a layer that every page holding elements on it declares off is the       *)
(* layer of no command.                                                      *)
C13_OffLayerContributesNothing ==
    Converted => \A name \in { ElementAt(s).layer : s \in Places } :
        (\A s \in Places : ElementAt(s).layer = name
                              => DeclaredOff(LayersAt(s), name))
            => name \notin CommandLayers

(* C13, amended: the same for a layer whose last declaration in the layer   *)
(* table of the page has off = true.                                         *)
C13_LastDeclaredOffContributesNothing ==
    Converted => \A name \in { ElementAt(s).layer : s \in Places } :
        (\A s \in Places : ElementAt(s).layer = name
                              => LastDeclaredOff(LayersAt(s), name))
            => name \notin CommandLayers

\* an element on an allow-listed layer declared twice, off last, is dropped
\* while another element of the page is drawn
C13_Witness ==
    /\ Converted
    /\ commands # <<>>
    /\ \E s \in Places :
        /\ ElementAt(s).layer \in Members(AllowList)
        /\ Len(LayersAt(s)) > 1
        /\ LastDeclaredOff(LayersAt(s), ElementAt(s).layer)
        /\ ElementAt(s).layer \notin CommandLayers

\* the elements that pass the filter of their page
Drawn ==
    { s \in Places :
        PassesFilter(layer_visibility(call.sps_doc.pages[s[1]], AllowList),
                     ElementAt(s)) }

Precedes(s, t) == s[1] < t[1] \/ (s[1] = t[1] /\ s[2] < t[2])

RECURSIVE TotalLength(_)
TotalLength(S) ==
    IF S = {} THEN 0
    ELSE LET s == CHOOSE x \in S : TRUE
         IN  Len(ElementCommands(ElementAt(s))) + TotalLength(S \ {s})

\* the number of commands of the drawn elements before s
Offset(s) == TotalLength({ t \in Drawn : Precedes(t, s) })

(* C14: the returned list is the concatenation, in page order and then in   *)
(* drawing_elements order, of the command lists of the elements that pass   *)
(* the filter: the commands of each such element stand together, in the     *)
(* resolver's order, right after those of the elements before it.           *)
C14_ConcatenationInOrder ==
    Converted =>
        /\ Len(commands) = TotalLength(Drawn)
        /\ \A s \in Drawn :
            SubSeq(commands, Offset(s) + 1,
                   Offset(s) + Len(ElementCommands(ElementAt(s))))
                = ElementCommands(ElementAt(s))

\* a door's arc and panel, then a line, both drawn
C14_Witness ==
    /\ Converted
    /\ \E s \in Drawn, t \in Drawn :
        /\ Precedes(s, t)
        /\ ElementAt(s).element_type = "BlockReference"
        /\ Len(ElementCommands(ElementAt(s))) = 2
        /\ ElementAt(t).element_type = "Line"
        /\ Offset(t) = 2
        /\ commands[3] = convert_line(ElementAt(t))

(* C16: convert_to_drawing_commands never raises, whatever the names,       *)
(* numbers, layer strings and color strings of the elements.                *)
C16_NeverRaises == pc # "raised"

(* C15: a conversion of the same document with the same allow-list as a     *)
(* kept earlier one, on the same engine or on a new one and whatever was    *)
(* converted in between, returns a list equal to the kept one, command by   *)
(* command.                                                                 *)
C15_SameInputSameCommands ==
    (pc = "returned" /\ previous # None /\ previous[1].call = call)
        => commands = previous[1].commands

\* the document with a door and a line converted again, a different
\* conversion having run since the kept one
C15_Witness ==
    /\ pc = "returned"
    /\ previous # None
    /\ previous[1].call = call
    /\ created = MaxCalls
    /\ Len(commands) = 3

(* C17: after any sequence of conversions the configuration of the engine   *)
(* is the one it had after construction, the document of a call is as it    *)
(* was passed, and a kept list is another object than the list a later call *)
(* returns and still holds the commands it was returned with.               *)
C17_CallLeavesEngineAndListsAlone ==
    /\ engine = DrawingEngine
    /\ pc \in {"returned", "raised"} => document = call.sps_doc
    /\ previous # None =>
        /\ lists[previous[1].list] = previous[1].commands
        /\ pc = "returned" => returned_list # previous[1].list

\* a later conversion has returned other commands than those of the kept list
C17_Witness ==
    /\ pc = "returned"
    /\ previous # None
    /\ commands # previous[1].commands
    /\ commands # <<>>
    /\ previous[1].commands # <<>>
    /\ lists[returned_list] = commands

(* C18: two conversions of different documents that run at once on one      *)
(* engine, their steps interleaved in any way, each end as they end alone:  *)
(* one that returns returns the list it returns alone, and one raises only  *)
(* if it raises alone.                                                      *)
C18_InterleavingChangesNothing ==
    \A p \in Procs :
        /\ frames[p].pc = "returned" =>
             /\ ~convert_raises(DrawingEngine, frames[p].call.sps_doc, None,
                                frames[p].call.wall_layers)
             /\ frames[p].commands =
                  convert_to_drawing_commands(DrawingEngine,
                      frames[p].call.sps_doc, None, frames[p].call.wall_layers)
        /\ frames[p].pc = "raised" =>
             convert_raises(DrawingEngine, frames[p].call.sps_doc, None,
                            frames[p].call.wall_layers)

\* both conversions have returned commands, each having run while the other did
C18_Witness ==
    \A p \in Procs :
        /\ frames[p].pc = "returned"
        /\ frames[p].overlapped
        /\ frames[p].commands # <<>>

-----------------------------------------------------------------------------
(* Vocabulary of the parser properties *)

Parsed == pc \in {"parsed", "written"}

Written == pc = "written"

\* the children of the Blocks of page p of the tree
BlockChildrenOf(p) ==
    LET database == find(PageElems(root)[p], "Database")
        block_table == IF database = None THEN None
                       ELSE find(database[1], "BlockTable")
        block_elems == Children(block_table, "Block")
    IN  Concat([j \in 1..Len(block_elems) |-> block_elems[j].children])

(* C19: the parser ignores Polyline elements: a page whose Blocks hold      *)
(* nothing but Polylines, and at least one, has no drawing elements.        *)
C19_PolylineIgnored ==
    Parsed => \A p \in 1..Len(document.pages) :
        (/\ BlockChildrenOf(p) # <<>>
         /\ \A i \in 1..Len(BlockChildrenOf(p)) :
               BlockChildrenOf(p)[i].tag = "Polyline")
            => document.pages[p].drawing_elements = <<>>

\* the numbers of a parsed element, field by field
NumbersOf(element) ==
    IF element.element_type = "Line"
    THEN <<element.start_point[1], element.start_point[2],
           element.end_point[1], element.end_point[2]>>
    ELSE IF element.element_type = "BlockReference"
    THEN <<element.position[1], element.position[2], element.angle,
           element.scale[1], element.scale[2]>>
    ELSE IF element.element_type = "Text"
    THEN <<element.position[1], element.position[2], element.height,
           element.angle>>
    ELSE IF element.element_type = "Circle"
    THEN <<element.center[1], element.center[2], element.radius>>
    ELSE <<element.center[1], element.center[2], element.radius,
           element.start_angle, element.end_angle>>

\* the attributes of an output element that hold numbers
NumberAttributes(attrib) ==
    DOMAIN attrib \ {"type", "layer", "color", "name", "text", "font"}

\* each number of the element is the value of an attribute of its own
CarriesNumbers(attrib, element) ==
    \A n \in 1..Len(NumbersOf(element)) :
        Cardinality({ m \in 1..Len(NumbersOf(element)) :
                        NumbersOf(element)[m] = NumbersOf(element)[n] })
            <= Cardinality({ k \in NumberAttributes(attrib) :
                               attrib[k] = str(NumbersOf(element)[n]) })

CarriesTexts(attrib, element) ==
    /\ attrib.type = element.element_type
    /\ attrib.layer = element.layer
    /\ attrib.color = element.color
    /\ element.element_type = "BlockReference" => attrib.name = element.name
    /\ element.element_type = "Text"
          => attrib.text = element.text /\ attrib.font = element.font

\* the page, layer and element counts and the order of the output
SameShape ==
    /\ Len(standard_xml.children) = Len(document.pages)
    /\ \A p \in 1..Len(document.pages) :
        LET page == document.pages[p]
            layers == standard_xml.children[p].children[1].children
            elements == standard_xml.children[p].children[2].children
        IN  /\ Len(layers) = Len(page.layers)
            /\ \A i \in 1..Len(layers) :
                  layers[i].attrib.name = page.layers[i].name
            /\ Len(elements) = Len(page.drawing_elements)
            /\ \A i \in 1..Len(elements) :
                  CarriesTexts(elements[i].attrib, page.drawing_elements[i])

(* C20: the standard XML written from a parsed document has one page per    *)
(* page, one layer per layer and one element per drawing element, in the    *)
(* order of the document, and each element carries every field of the      *)
(* drawing element it was written from, the scale of a BlockReference       *)
(* included.                                                                *)
C20_StandardXmlCarriesEveryField ==
    Written =>
        /\ SameShape
        /\ \A p \in 1..Len(document.pages) :
            \A i \in 1..Len(document.pages[p].drawing_elements) :
                CarriesNumbers(
                    standard_xml.children[p].children[2].children[i].attrib,
                    document.pages[p].drawing_elements[i])

\* all but the BlockReference elements carry every field
C20_AllButBlockReferences ==
    Written =>
        /\ SameShape
        /\ \A p \in 1..Len(document.pages) :
            \A i \in 1..Len(document.pages[p].drawing_elements) :
                document.pages[p].drawing_elements[i].element_type # "BlockReference"
                    => CarriesNumbers(
                         standard_xml.children[p].children[2].children[i].attrib,
                         document.pages[p].drawing_elements[i])

-----------------------------------------------------------------------------
(* C21: parse_coordinates *)

\* the parts that are numbers, each with its value
NumericParts ==
    { << <<"1">>, Units(1) >>,
      << <<"-", "2", ".", "5">>, -Hundredths(250) >>,
      << <<"1", "e", "3">>, Units(1000) >>,
      << <<"5", "e", "-", "1">>, Hundredths(50) >>,
      << <<" ", "3", " ">>, Units(3) >>,
      << <<"+", ".", "5">>, Hundredths(50) >>,
      << <<"1", "E", "2">>, Units(100) >> }

IsNumeric(part) == \E n \in NumericParts : n[1] = part

ValueOf(part) == (CHOOSE n \in NumericParts : n[1] = part)[2]

Commas(s) == { i \in 1..Len(s) : s[i] = "," }

BeforeComma(s) == SubSeq(s, 1, (CHOOSE i \in Commas(s) : TRUE) - 1)

AfterComma(s) == SubSeq(s, (CHOOSE i \in Commas(s) : TRUE) + 1, Len(s))

\* exactly two comma-separated parts, both numbers
TwoNumbers(s) ==
    /\ Cardinality(Commas(s)) = 1
    /\ IsNumeric(BeforeComma(s))
    /\ IsNumeric(AfterComma(s))

\* C21: parse_coordinates never raises for a string; a string of exactly two
\* comma-separated numbers "x,y" (negative and exponent notation included)
\* gives (x, y), and every other string gives (0.0, 0.0).
C21_TwoNumbersOrOrigin ==
    /\ pc # "raised"
    /\ pc = "coordinates" =>
           IF TwoNumbers(coord_arg)
           THEN coordinates = <<ValueOf(BeforeComma(coord_arg)),
                                ValueOf(AfterComma(coord_arg))>>
           ELSE coordinates = <<0, 0>>

\* a negative exponent and a negative number, parsed to (0.5, -2.5)
C21_Witness ==
    /\ pc = "coordinates"
    /\ coord_arg = <<"5", "e", "-", "1", ",", "-", "2", ".", "5">>
    /\ coordinates = <<Hundredths(50), -Hundredths(250)>>


-----------------------------------------------------------------------------
(* C22: unsupported tags *)

DrawingTags == {"Line", "BlockReference", "Text", "Circle", "Arc"}

\* the children of page p with one of the five tags that parse, parsed
SupportedChildrenOf(p) ==
    LET kept == SelectSeq(BlockChildrenOf(p),
                          LAMBDA child : /\ child.tag \in DrawingTags
                                         /\ ~parse_element_raises(child))
    IN  [i \in 1..Len(kept) |-> parse_element(kept[i])]

HasOtherTag(p) ==
    \E i \in 1..Len(BlockChildrenOf(p)) : BlockChildrenOf(p)[i].tag \notin DrawingTags

\* C22: a child of a Block with another tag than Line, BlockReference, Text,
\* Circle, Arc is ignored and does not break parsing: parsing does not
\* raise, and the drawing elements of a page are exactly its children of
\* these five tags, in document order, and nothing for any other tag.
C22_OnlyTheFiveTags ==
    /\ pc # "raised"
    /\ Parsed => \A p \in 1..Len(document.pages) :
          document.pages[p].drawing_elements = SupportedChildrenOf(p)

\* the same holds of the pages that have no Polyline
C22_HoldsWithoutPolylines ==
    Parsed => \A p \in 1..Len(document.pages) :
        (\A i \in 1..Len(BlockChildrenOf(p)) : BlockChildrenOf(p)[i].tag # "Polyline")
            => document.pages[p].drawing_elements = SupportedChildrenOf(p)

-----------------------------------------------------------------------------
(* C23: the off attribute of a Layer *)

\* the Layer elements of page p of the tree
LayerElemsOf(p) ==
    LET database == find(PageElems(root)[p], "Database")
        layer_table == IF database = None THEN None
                       ELSE find(database[1], "LayerTable")
    IN  Children(layer_table, "Layer")

\* the string "true" in any case
IsTrueInAnyCase(v) ==
    /\ Len(v) = 4
    /\ v[1] \in {"t", "T"}
    /\ v[2] \in {"r", "R"}
    /\ v[3] \in {"u", "U"}
    /\ v[4] \in {"e", "E"}

\* C23: a parsed Layer has off = true exactly when its off attribute is,
\* compared without regard to case, the string "true"; every other value
\* and a missing attribute give off = false.
C23_OffIsTrueInAnyCase ==
    Parsed => \A p \in 1..Len(document.pages) :
        /\ Len(document.pages[p].layers) = Len(LayerElemsOf(p))
        /\ \A i \in 1..Len(LayerElemsOf(p)) :
              document.pages[p].layers[i].off
                  <=> /\ "off" \in DOMAIN LayerElemsOf(p)[i].attrib
                      /\ IsTrueInAnyCase(LayerElemsOf(p)[i].attrib.off)

\* a Layer with off="tRuE" parsed as off, before a Layer without the attribute
C23_Witness ==
    /\ Parsed
    /\ \E p \in 1..Len(document.pages) :
        /\ Len(LayerElemsOf(p)) = 2
        /\ LayerElemsOf(p)[1].attrib.off = <<"t", "R", "u", "E">>
        /\ document.pages[p].layers[1].off
        /\ "off" \notin DOMAIN LayerElemsOf(p)[2].attrib
        /\ ~document.pages[p].layers[2].off

-----------------------------------------------------------------------------
(* C24: the tolerance of the positional overrides *)

\* the block is emitted with the forced configuration of entry e
EntryApplied(b, cmds, e) ==
    /\ IsDoorPair(cmds)
    /\ <<cmds[1].x, cmds[1].y>> = HingeCentre(b, e.sign)
    /\ cmds[1].start_angle = AddQuarter(b.angle, e.quarter)

\* the block is emitted as the rules after the overrides emit it: the
\* candidate of maximum distance for a door with a hinge definition, the arc
\* at the position itself for a door without one
ResolvedByLaterRules(b, r, cmds) ==
    IF b.name \in DOMAIN door_block_defs
    THEN \E i \in 1..4 :
            /\ FirstMaximum(b, r, i)
            /\ IsDoorPair(cmds)
            /\ <<cmds[1].x, cmds[1].y>>
                 = HingeCentre(b, <<CandidateOrder[i][1], CandidateOrder[i][1]>>)
            /\ cmds[1].start_angle = AddQuarter(b.angle, CandidateOrder[i][2])
    ELSE /\ IsDoorPair(cmds)
         /\ <<cmds[1].x, cmds[1].y>> = b.position
         /\ cmds[1].start_angle = b.angle

\* the rule that takes block b, with the strict comparisons of the claim
TakenBy(b, r, cmds) ==
    IF \E i \in DOMAIN ExceptionTable :
           /\ Abs(b.position[1] - Hundredths(ExceptionTable[i].ax)) < Units(20)
           /\ Abs(b.position[2] - Hundredths(ExceptionTable[i].ay)) < Units(20)
    THEN EntryApplied(b, cmds, ForcedEntry(b))
    ELSE IF b.position[2] > Units(19000)
    THEN EntryApplied(b, cmds, ThresholdEntry)
    ELSE ResolvedByLaterRules(b, r, cmds)

\* C24: a coordinate override at anchor (ax, ay) applies to a door block at
\* (x, y) exactly when |x - ax| < 20 and |y - ay| < 20, both strict; the
\* threshold override applies exactly when y > 19000; a position exactly 20
\* away on an axis, or with y = 19000, is resolved by the later rules.
C24_StrictTolerance ==
    (Returned /\ block.name \in DoorSymbols) => TakenBy(block, rounding, commands)

\* the same holds of the doors that have a hinge definition
C24_HoldsForCatalogDoors ==
    (Returned /\ block.name \in CatalogDoors) => TakenBy(block, rounding, commands)

-----------------------------------------------------------------------------
(* C25: stairs *)

-----------------------------------------------------------------------------
(* C26: colors *)

MapColors == { color_map[k] : k \in DOMAIN color_map }

\* the layer name's color, else the color code's color, else black
ExpectedColor(color_code, layer_name) ==
    IF layer_name \in DOMAIN color_map THEN color_map[layer_name]
    ELSE IF color_code \in DOMAIN color_map THEN color_map[color_code]
    ELSE "black"

IsWindow(element) ==
    element.element_type = "BlockReference" /\ element.block.name \in WindowSymbols

\* the commands of the drawn elements other than windows carry the color of
\* their element
DrawnInExpectedColor ==
    \A s \in Drawn :
        ~IsWindow(ElementAt(s)) =>
            \A i \in (Offset(s) + 1)..(Offset(s) + Len(ElementCommands(ElementAt(s)))) :
                /\ commands[i].color \in MapColors
                /\ commands[i].color
                     = ExpectedColor(ElementAt(s).color, ElementAt(s).layer)

\* C26: _get_color always returns a value of the color map: the color of the
\* layer name when it is a key, otherwise the color of the color code when
\* that is a key, otherwise black; and every command of a Line, Text, Circle,
\* Arc, door, stair or unknown block carries the color so computed from its
\* element's color and layer.
C26_ColorByLayerThenCode ==
    /\ pc # "raised"
    /\ Converted => DrawnInExpectedColor

\* the priority holds of every conversion that returns
C26_HoldsWhenReturned == Converted => DrawnInExpectedColor

\* and of every door, stair and unknown block resolved by itself
C26_BlockCommandsInExpectedColor ==
    (Returned /\ block.name \notin WindowSymbols) =>
        \A i \in 1..Len(commands) :
            commands[i].color = ExpectedColor(block.color, block.layer)

-----------------------------------------------------------------------------
(* C27: coordinate overrides before the threshold override *)

\* the entry at (4195.79, 23732.8), the only one above y = 19000
HighEntry == ExceptionTable[5]

\* the open squares of two entries share no point
Disjoint(e, f) ==
    \/ Abs(Hundredths(e.ax) - Hundredths(f.ax)) >= 2 * Units(20)
    \/ Abs(Hundredths(e.ay) - Hundredths(f.ay)) >= 2 * Units(20)

\* C27: the coordinate overrides come before the y > 19000 override: a
\* catalog door (CPDOOR1, CPDOOR5) within tolerance of (4195.79, 23732.8) is
\* emitted with its arc starting at angle - 90 degrees, every other catalog
\* door with y > 19000 with the hinge at (-|hx|, +|hy|) and the arc starting
\* at angle + 90 degrees; the six coordinate regions are pairwise disjoint,
\* so that at most one coordinate entry matches a position.
C27_CoordinateBeforeThreshold ==
    /\ \A i, j \in DOMAIN ExceptionTable :
          i # j => Disjoint(ExceptionTable[i], ExceptionTable[j])
    /\ (Returned /\ block.name \in CatalogDoors) =>
          /\ Cardinality({ i \in DOMAIN ExceptionTable :
                             NearAnchor(block, ExceptionTable[i].ax,
                                        ExceptionTable[i].ay) }) <= 1
          /\ NearAnchor(block, HighEntry.ax, HighEntry.ay) =>
                /\ IsDoorPair(commands)
                /\ commands[1].start_angle = AddQuarter(block.angle, -1)
          /\ (block.position[2] > Units(19000)
                 /\ ~NearAnchor(block, HighEntry.ax, HighEntry.ay)) =>
                /\ IsDoorPair(commands)
                /\ <<commands[1].x, commands[1].y>> = HingeCentre(block, <<-1, 1>>)
                /\ commands[1].start_angle = AddQuarter(block.angle, 1)

\* a catalog door at (4195.79, 23732.8), above 19000, its arc from angle - 90
C27_Witness ==
    /\ Returned
    /\ block.name = "CPDOOR1"
    /\ block.position = <<Hundredths(419579), Hundredths(2373280)>>
    /\ block.position[2] > Units(19000)
    /\ block.angle = Angle(1, 0)
    /\ IsDoorPair(commands)
    /\ commands[1].start_angle = Angle(1, -1)

-----------------------------------------------------------------------------
(* C28: the four candidates of CPDOOR1 and CPDOOR5 *)

\* the squared distances the candidate loop computes for b without rounding
ExactDistances(b) ==
    LET sc == EffectiveScale(b)
        cands == Candidates(b, door_block_defs[b.name].hinge_offset, sc,
                            ScaleRadius(sc[1]), NoRounding)
    IN  [i \in 1..4 |-> cands[i].dist]

\* (0.5 * sx)^2 + door_radius^2
HalfWidthAndRadiusSquared(b) ==
    BigAdd(Square(Units(EffectiveSx(b)) \div 2), Square(SpecRadius(b)))

\* C28: for CPDOOR1 and CPDOOR5, whose hinge offset (-0.5, 0) has a zero y
\* component, the four candidates have the same squared panel-endpoint
\* distance (0.5 * sx)^2 + door_radius^2 at every position, angle and scale;
\* so in exact arithmetic the heuristic selects the first candidate: the
\* hinge at (+0.5 * sx, 0) rotated by angle, the arc starting at angle + 90
\* degrees.
C28_FourEqualDistances ==
    (Returned /\ block.name \in CatalogDoors) =>
        /\ \A i \in 1..4 : ExactDistances(block)[i] = HalfWidthAndRadiusSquared(block)
        /\ (rounding = NoRounding /\ ~MatchesOverride(block)) =>
              /\ IsDoorPair(commands)
              /\ commands[1].x = block.position[1]
                     + MulCos(Units(EffectiveSx(block)) \div 2, block.angle)
              /\ commands[1].y = block.position[2]
                     + MulSin(Units(EffectiveSx(block)) \div 2, block.angle)
              /\ commands[1].start_angle = AddQuarter(block.angle, 1)

\* a turned door of scale (2, -1) off every override, resolved without
\* rounding: hinge one unit along the turned axis, arc from angle + 90
C28_Witness ==
    /\ Returned
    /\ block.name = "CPDOOR5"
    /\ ~MatchesOverride(block)
    /\ rounding = NoRounding
    /\ block.angle = Angle(1, 1)
    /\ block.scale = <<2, -1>>
    /\ ExactDistances(block)[4] = ExactDistances(block)[1]
    /\ commands[1].x = block.position[1] + MulCos(Units(1), block.angle)
    /\ commands[1].start_angle = Angle(1, 2)

-----------------------------------------------------------------------------
(* C29: the empty allow-list *)

EmptyAllowList == Converted /\ call.wall_layers = Some(<<>>)

-----------------------------------------------------------------------------
(* C30: children that fail to parse *)

FailsToParse(child) ==
    IF child.tag = "Polyline" THEN parse_polyline_raises(child)
    ELSE child.tag \in supported_elements /\ parse_element_raises(child)

\* what a child adds to the elements of its page when a failing child is
\* skipped
ElementsOfChild(child) ==
    IF child.tag \notin supported_elements \/ FailsToParse(child) THEN <<>>
    ELSE IF child.tag = "Polyline" THEN parse_polyline(child)
    ELSE <<parse_element(child)>>

ElementsOfChildren(p) ==
    Concat([i \in 1..Len(BlockChildrenOf(p)) |-> ElementsOfChild(BlockChildrenOf(p)[i])])

\* C30: a child of a Block of a supported kind (Line, BlockReference, Text,
\* Circle, Arc, Polyline) that fails to parse never aborts parsing:
\* parse_file returns a document, the failing child is skipped and the other
\* children are returned in document order.
C30_FailingChildIsSkipped ==
    /\ root # NoRoot => pc # "raised"
    /\ Parsed => \A p \in 1..Len(document.pages) :
          document.pages[p].drawing_elements = ElementsOfChildren(p)

\* parsing is aborted by a failing Polyline only; whenever a document is
\* returned, the failing children are skipped and the others are in order
C30_HoldsButForPolylines ==
    /\ pc = "raised" =>
          \E p \in 1..Len(PageElems(root)) :
              \E i \in 1..Len(BlockChildrenOf(p)) :
                  /\ BlockChildrenOf(p)[i].tag = "Polyline"
                  /\ FailsToParse(BlockChildrenOf(p)[i])
    /\ Parsed => \A p \in 1..Len(document.pages) :
          document.pages[p].drawing_elements = ElementsOfChildren(p)

====
